---- MODULE Spec2Model ----
(***************************************************************************)
(* BirdRiskSim: the risk-level hysteresis of RealTimePipeline              *)
(* (bds_server.py) and the TCP event client BDSTCPClient                   *)
(* (bds_tcp_client.py) with its sender and reconnect worker threads.       *)
(*                                                                         *)
(* Python values are modelled as strings: the str 'BR_LOW' is "BR_LOW",    *)
(* the enum member RiskLevel.BR_LOW is "RiskLevel.BR_LOW" (a plain Enum    *)
(* member never compares equal to a str).  Time is time.time() in whole    *)
(* seconds.  A socket is a connection number, 0 is None.  wire[c] is the   *)
(* byte stream the server has received on connection c, as the sequence    *)
(* of the sendall calls that reached it.                                   *)
(*                                                                         *)
(* Also modelled: SessionTracker (byte_track.py), the frame watcher and    *)
(* the processing worker, the risk engine's measurements, the real-time    *)
(* triangulator (triangulate.py) and the route lookups of                  *)
(* RouteBasedRiskCalculator (route_based_risk_calculator.py).              *)
(***************************************************************************)
EXTENDS Integers, Sequences, FiniteSets, TLC

\* ---------------------------------------------------------------- bounds
MaxFrames == 7          \* frames of the pipeline, TCP disabled
MaxEvents == 4          \* with a TCP client: frames handed to calculate_risk,
                        \* sockets created (one whose connect raised is closed
                        \* and not counted), advances of the clock and calls
                        \* of send_risk_update, taken together
MaxUpdates == 5         \* calls of SessionTracker.update and finalize
MaxDetections == 3      \* frames of process_frame that pass the frame skip
MaxPolls == 12          \* passes of the frame watcher's loop, TCP disabled
MaxObjects == 4         \* detections of a frame given to the triangulator
MaxRoutePoints == 2     \* route points of a loaded route
MaxIdlePolls == 2       \* those of them that put no bundle on the queue, and
                        \* the Recording folders found after the first,
                        \* taken together

\* ------------------------------------------------------- program constants
downgrade_threshold == 5
min_send_interval == 1
heartbeat_interval == 30
\* the tracking_config of the pipeline
position_jump_threshold == 50
jump_duration_threshold == 3
min_session_length == 10
frame_skip == 2
frame_queue_maxsize == 10
distance_threshold == 100        \* m, config['distance_threshold']
max_coord == 10000              \* m, the outlier filter of process_frame_multicam

Levels == {"BR_LOW", "BR_MEDIUM", "BR_HIGH"}
level_priority == [l \in Levels |-> CASE l = "BR_LOW" -> 0 [] l = "BR_MEDIUM" -> 1 [] l = "BR_HIGH" -> 2]
RiskLevel_BR_LOW == "RiskLevel.BR_LOW"
None == "None"

Threads == {"proc", "sender", "reconn", "watch"}

VARIABLES
    enable_tcp, is_running,
    last_risk_level, risk_level_downgrade_counter, current_risk_level,
    frame_id, risk_result, calls,
    pc, msg,
    running, connected, socket, message_queue, last_sent_risk, last_send_time,
    last_heartbeat, rw_time,
    now, ticks, next_conn, link, wire,
    accepted, sru_call

\* SessionTracker, and the pipeline's frame skipping
VARIABLES sessions, current_session_id, in_session, current_session_data,
          last_airplane_position, last_frame_number, jump_start_frame, jump_frames_count,
          skip_counter,
          detect_calls,     \* calls of detect_objects so far
          frame_number,     \* the frame number of the last frame handed to the tracker
          updates,          \* calls of update and finalize so far
          points,           \* what the last frame given to process_frame held
          jump              \* the last one-frame jump seen in a session and the frames since

trackerVars == <<sessions, current_session_id, in_session, current_session_data,
                 last_airplane_position, last_frame_number, jump_start_frame,
                 jump_frames_count, skip_counter, detect_calls, frame_number, updates,
                 points, jump>>

\* the risk engine's measurements of a frame: the two tracks (their last
\* position in m and last velocity in m/s), the hybrid distance in cm, the
\* relative speed in cm/s, the TTC in 1/100 s and the raw level
VARIABLES airplane_track, flock_track, hybrid_distance, relative_speed, ttc, raw_risk_level

riskVars == <<airplane_track, flock_track, hybrid_distance, relative_speed, ttc, raw_risk_level>>

\* the configuration, the frame queue between the frame watcher and the
\* processing worker, and the locals of the two
VARIABLES self_frame_skip,          \* self.frame_skip
          camera_letters,           \* self.config["camera_letters"]
          frame_queue, frame_count,
          current_recording_dir,    \* the number of the Recording folder, 0 is None
          last_processed,           \* per camera the file seen last, <<>> is None
          new_frames,               \* the images of the watcher's last pass
          emitted,                  \* the last bundle put on the queue
          frame_data,               \* the bundle the processing worker got last
          polls                     \* passes of the watcher's loop so far

queueVars == <<self_frame_skip, camera_letters, frame_queue, frame_count,
               current_recording_dir, last_processed, new_frames, emitted, frame_data, polls>>

\* the triangulator: the detections of the frame given to it, how many
\* projection matrices it is given, the matches of its camera pairs and the
\* points it returned
VARIABLES detections, projection_matrices, matches, triangulated_points,
          triangulations            \* calls of triangulate_objects_realtime so far

\* RouteBasedRiskCalculator: self.flight_routes, per route name the
\* route_points of the route, and the last call of one of its methods
VARIABLES flight_routes, route_call

geoVars == <<detections, projection_matrices, matches, triangulated_points, triangulations,
             flight_routes, route_call>>

\* the list objects of the tracker: lists[r] is what the list with reference
\* r holds; the references held by current_session_data, by each Session of
\* self.sessions and by the Airplane track of the last active-tracks
\* snapshot (0: no list)
VARIABLES lists, current_lists, session_lists, snapshot

\* the last call of Session._remove_position_outliers: the list and the
\* threshold it was given, and the list it returned
VARIABLES cleaning

heapVars == <<lists, current_lists, session_lists, snapshot, cleaning>>

pipeVars == <<enable_tcp, is_running, last_risk_level, risk_level_downgrade_counter,
              current_risk_level, frame_id, risk_result, calls>>
clientVars == <<running, connected, socket, message_queue, last_sent_risk, last_send_time,
                last_heartbeat, rw_time>>
envVars == <<now, ticks, next_conn, link, wire>>
vars == <<pipeVars, pc, msg, clientVars, envVars, accepted, sru_call, trackerVars, riskVars,
          queueVars, geoVars, heapVars>>

\* ------------------------------------------------------------- messages
NoTs == 0 - 1
NoMsg == [type |-> "none", result |-> "", ts |-> NoTs]
\* calculate_risk's message: {"type","event","result"}, no timestamp
PipeEvent(level) == [type |-> "event", result |-> level, ts |-> NoTs]
\* send_risk_update's message: {"type","event","result","timestamp"}
ClientEvent(level, t) == [type |-> "event", result |-> level, ts |-> t]
Heartbeat(t) == [type |-> "heartbeat", result |-> "alive", ts |-> t]
ConnectionStatus(status, t) == [type |-> "connection", result |-> status, ts |-> t]

RECURSIVE Digits(_)
Digits(n) == IF n < 10 THEN 1 ELSE 1 + Digits(n \div 10)

\* len(json.dumps(message).encode('utf-8')): the fixed text of each message
\* shape plus its variable parts (the level string, the float timestamp "t.0")
StrLen(s) == CASE s = "BR_LOW" -> 6 [] s = "BR_MEDIUM" -> 9 [] s = "BR_HIGH" -> 7
               [] s = "connected" -> 9 [] s = "alive" -> 5 [] OTHER -> 0
TsLen(t) == Digits(t) + 2
JsonLen(m) ==
    CASE m.type = "event" /\ m.ts = NoTs -> 54 + StrLen(m.result)
      [] m.type = "event" /\ m.ts # NoTs -> 54 + StrLen(m.result) + 15 + TsLen(m.ts)
      [] m.type = "heartbeat" -> 50 + TsLen(m.ts) + StrLen(m.result)
      [] m.type = "connection" -> 51 + StrLen(m.result) + TsLen(m.ts)
      [] OTHER -> 0

\* int.to_bytes(4, byteorder='big')
to_bytes4(n) == << (n \div 16777216) % 256, (n \div 65536) % 256, (n \div 256) % 256, n % 256 >>
from_bytes4(b) == ((b[1] * 256 + b[2]) * 256 + b[3]) * 256 + b[4]

\* the two sendall calls of send_message
LengthChunk(m) == [k |-> "len", b |-> to_bytes4(JsonLen(m)), n |-> 4, m |-> NoMsg]
BodyChunk(m) == [k |-> "json", b |-> <<>>, n |-> JsonLen(m), m |-> m]

\* ------------------------------------------------------ get_stable_risk_level
\* as get_stable_risk_level, but a same-level frame leaves the counter alone
get_stable_risk_level_no_reset(new_level, last, counter) ==
    IF level_priority[new_level] > level_priority[last]
    THEN [ret |-> new_level, last |-> new_level, counter |-> 0]
    ELSE IF level_priority[new_level] < level_priority[last]
    THEN IF counter + 1 >= downgrade_threshold
         THEN [ret |-> new_level, last |-> new_level, counter |-> 0]
         ELSE [ret |-> last, last |-> last, counter |-> counter + 1]
    ELSE [ret |-> new_level, last |-> last, counter |-> counter]

\* as get_stable_risk_level, but an upgrade keeps the downgrade counter
get_stable_risk_level_keep_counter(new_level, last, counter) ==
    IF level_priority[new_level] > level_priority[last]
    THEN [ret |-> new_level, last |-> new_level, counter |-> counter]
    ELSE IF level_priority[new_level] < level_priority[last]
    THEN IF counter + 1 >= downgrade_threshold
         THEN [ret |-> new_level, last |-> new_level, counter |-> 0]
         ELSE [ret |-> last, last |-> last, counter |-> counter + 1]
    ELSE [ret |-> new_level, last |-> last, counter |-> 0]

\* as get_stable_risk_level, but the threshold is compared with > for >=
get_stable_risk_level_strict(new_level, last, counter) ==
    IF level_priority[new_level] > level_priority[last]
    THEN [ret |-> new_level, last |-> new_level, counter |-> 0]
    ELSE IF level_priority[new_level] < level_priority[last]
    THEN IF counter + 1 > downgrade_threshold
         THEN [ret |-> new_level, last |-> new_level, counter |-> 0]
         ELSE [ret |-> last, last |-> last, counter |-> counter + 1]
    ELSE [ret |-> new_level, last |-> last, counter |-> 0]

\* returns the stabilized level and the new held level and counter; a level
\* outside level_priority raises KeyError and the raw level is returned
get_stable_risk_level(new_level, last, counter) ==
    IF new_level \notin DOMAIN level_priority \/ last \notin DOMAIN level_priority
    THEN [ret |-> new_level, last |-> last, counter |-> counter]
    ELSE IF level_priority[new_level] > level_priority[last]
    THEN [ret |-> new_level, last |-> new_level, counter |-> 0]
    ELSE IF level_priority[new_level] < level_priority[last]
    THEN IF counter + 1 >= downgrade_threshold
         THEN [ret |-> new_level, last |-> new_level, counter |-> 0]
         ELSE [ret |-> last, last |-> last, counter |-> counter + 1]
    ELSE [ret |-> new_level, last |-> last, counter |-> 0]

\* float('inf')
inf == 1000000000
\* a track the risk engine has not been given; a track without velocities
NoVelocity == <<>>
NoTrack == [position |-> <<>>, velocity |-> NoVelocity]

\* None where a position (x, z) or a frame number is expected
NoPosition == <<>>
NoFrame == 0 - 1

\* self.current_session_data = {}; the positions of a session are kept as
\* their number, the first and the last of them
NoPositions == [n |-> 0, first |-> NoPosition, last |-> NoPosition]
NoVelocities == [n |-> 0, last |-> <<>>]
NoSessionData == [start_frame |-> 0, last_frame |-> 0,
                  airplane_positions |-> NoPositions, flock_positions |-> 0,
                  airplane_velocities |-> NoVelocities]
\* a frame's triangulated points: the (x, z) of the first Airplane or None,
\* and whether there is a Flock
NoPoints == [airplane |-> NoPosition, flock |-> FALSE]
NoJump == [id |-> 0, to |-> NoPosition, stayed |-> 0]

NoResult == [frame |-> 0, raw_risk_level |-> None, risk_level |-> None, stabilized |-> FALSE]

\* the cameras a configuration can name and the files of their folders: a
\* file is <<r, n>>, the n-th image written in the folder of Recording r
Cameras == {"A", "B"}
NoFile == <<>>
NoImages == [letter \in {} |-> NoFile]
NoFrameData == [frame_id |-> NoFrame, images |-> NoImages]
default_camera_letters == {"A", "B"}

\* the state after construction, but for the configuration read
\* no route is loaded
NoRoutes == [name \in {} |-> <<>>]
\* what a call of the route calculator gives: the exception it raised if
\* any, and what it returned
NoReturn == [raised |-> "", distance |-> 0, point |-> <<>>, index |-> 0,
             direction |-> <<>>, norm |-> 0]
NoCall == [method |-> "", route_name |-> "", position |-> <<>>, result |-> NoReturn]

\* the position list and the velocity list an object refers to: none
NoLists == [positions |-> 0, velocities |-> 0]
NoCleaning == [positions |-> <<>>, threshold |-> 0, cleaned |-> <<>>, calls |-> 0]

InitPipeline ==
    /\ enable_tcp \in BOOLEAN
    /\ is_running = FALSE
    /\ last_risk_level = "BR_LOW"
    /\ risk_level_downgrade_counter = 0
    /\ current_risk_level = RiskLevel_BR_LOW
    /\ frame_id = 0
    /\ risk_result = NoResult
    /\ calls = <<>>
    /\ pc = [t \in Threads |-> "off"]
    /\ msg = [t \in {"proc", "sender"} |-> NoMsg]
    /\ running = FALSE
    /\ connected = FALSE
    /\ socket = 0
    /\ message_queue = <<>>
    /\ last_sent_risk = None
    /\ last_send_time = 0
    /\ last_heartbeat = 0
    /\ rw_time = 0
    /\ now = 1
    /\ ticks = 0
    /\ next_conn = 0
    /\ link = {}
    /\ wire = [c \in 1..MaxEvents |-> <<>>]
    /\ accepted = <<>>
    /\ sru_call = [n |-> 0, level |-> None]
    /\ sessions = <<>>
    /\ current_session_id = 0
    /\ in_session = FALSE
    /\ current_session_data = NoSessionData
    /\ last_airplane_position = NoPosition
    /\ last_frame_number = NoFrame
    /\ jump_start_frame = NoFrame
    /\ jump_frames_count = 0
    /\ skip_counter = 0
    /\ frame_number = 0
    /\ updates = 0
    /\ points = NoPoints
    /\ jump = NoJump
    /\ airplane_track = NoTrack
    /\ flock_track = NoTrack
    /\ hybrid_distance = 0
    /\ relative_speed = 0
    /\ ttc = inf
    /\ raw_risk_level = None
    /\ detect_calls = 0
    /\ frame_queue = <<>>
    /\ frame_count = 0
    /\ current_recording_dir = 0
    /\ last_processed = [letter \in Cameras |-> NoFile]
    /\ new_frames = NoImages
    /\ emitted = NoFrameData
    /\ frame_data = NoFrameData
    /\ polls = 0
    /\ matches = <<>>
    /\ triangulated_points = <<>>
    /\ triangulations = 0
    /\ route_call = NoCall
    /\ lists = <<>>
    /\ current_lists = NoLists
    /\ session_lists = <<>>
    /\ snapshot = NoLists

\* no frame has been given to the triangulator and no route is loaded
InitState ==
    /\ InitPipeline
    /\ detections = <<>>
    /\ projection_matrices = 0
    /\ flight_routes = NoRoutes
    /\ cleaning = NoCleaning

\* the state after construction with the default configuration
Init ==
    /\ InitState
    /\ self_frame_skip = frame_skip
    /\ camera_letters = default_camera_letters

\* ------------------------------------------------------------- time.time()
TickSteps == {1, heartbeat_interval + 1}

\* the values the next reading of the clock can have: the last reading, or
\* one second or more than a heartbeat interval later
Readings == {now} \cup {now + d : d \in TickSteps}

\* what a run with a TCP client has used of MaxEvents
Events == frame_id + next_conn + ticks + sru_call.n + polls

\* time.time() returns t, in a step that uses `used` of MaxEvents besides
time_time(t, used) ==
    /\ t # now => Events + used < MaxEvents
    /\ now' = t
    /\ ticks' = IF t = now THEN ticks ELSE ticks + 1

\* ------------------------------------------------------------- start()
\* BDSTCPClient._connect run to completion (no worker thread exists yet)
connect_result(ok, c, used) ==
    IF ok
    THEN /\ connected' = TRUE
         /\ socket' = c
         /\ link' = link \cup {c}
         /\ \E t \in Readings :
               /\ time_time(t, used)
               /\ message_queue' = Append(message_queue, ConnectionStatus("connected", t))
    ELSE /\ connected' = FALSE
         /\ socket' = 0
         /\ link' = link
         /\ message_queue' = message_queue
         /\ UNCHANGED <<now, ticks>>

\* BDSTCPClient.start: running, the first _connect, then the two workers
client_start ==
    /\ running' = TRUE
    /\ \E ok \in BOOLEAN :
          /\ connect_result(ok, next_conn + 1, 1)
          /\ next_conn' = IF ok THEN next_conn + 1 ELSE next_conn
    /\ last_heartbeat' = now'
    /\ UNCHANGED <<last_sent_risk, last_send_time, rw_time, wire, msg>>

\* client.start() called by the owner of a stand-alone client
ClientStart ==
    /\ ~running /\ ~is_running
    /\ client_start
    /\ pc' = [pc EXCEPT !["sender"] = "get", !["reconn"] = "loop"]
    /\ UNCHANGED <<pipeVars, accepted, sru_call>>
    /\ UNCHANGED <<trackerVars, riskVars, queueVars, geoVars, heapVars>>

\* RealTimePipeline.start: is_running, the TCP client if there is one, then
\* the processing worker
PipelineStart ==
    /\ ~is_running
    /\ pc["watch"] = "off"
    /\ is_running' = TRUE
    /\ IF enable_tcp
       THEN /\ client_start
            /\ pc' = [pc EXCEPT !["proc"] = "idle", !["sender"] = "get", !["reconn"] = "loop",
                                !["watch"] = "loop"]
       ELSE /\ pc' = [pc EXCEPT !["proc"] = "idle", !["watch"] = "loop"]
            /\ UNCHANGED <<clientVars, envVars, msg>>
    /\ UNCHANGED <<enable_tcp, last_risk_level, risk_level_downgrade_counter,
                   current_risk_level, frame_id, risk_result, calls, accepted, sru_call>>
    /\ UNCHANGED <<trackerVars, riskVars, queueVars, geoVars, heapVars>>

\* ------------------------------------------------------- calculate_risk
\* the last downgrade_threshold calls of get_stable_risk_level
Remember(h, c) ==
    IF Len(h) < downgrade_threshold THEN Append(h, c) ELSE Append(Tail(h), c)

\* as level_changed, but the comparison is by priority and inverted
level_changed_inverted(stable, current) ==
    IF current \in DOMAIN level_priority
    THEN level_priority[stable] < level_priority[current]
    ELSE TRUE

\* if stable_risk_level != self.current_risk_level
level_changed(stable, current) == stable # current

\* as calculate_risk, but the BR_LOW of a frame without a Flock track goes
\* through the hysteresis before it is returned
calculate_risk_low_stabilized(tracks, raw) ==
    /\ is_running
    /\ pc["proc"] = "idle"
    /\ frame_id' = frame_id + 1
    /\ IF tracks = "none"
       THEN \* no Airplane: return None
            /\ risk_result' = [NoResult EXCEPT !.frame = frame_id + 1]
            /\ UNCHANGED <<last_risk_level, risk_level_downgrade_counter, calls, pc, msg>>
       ELSE IF tracks = "airplane"
       THEN \* Airplane without Flock: BR_LOW, returned before the hysteresis
            /\ risk_result' = [frame |-> frame_id + 1, raw_risk_level |-> None,
                               risk_level |-> "BR_LOW", stabilized |-> FALSE]
            /\ LET low == get_stable_risk_level("BR_LOW", last_risk_level,
                                                risk_level_downgrade_counter)
               IN  /\ last_risk_level' = low.last
                   /\ risk_level_downgrade_counter' = low.counter
            /\ UNCHANGED <<calls, pc, msg>>
       ELSE LET s == get_stable_risk_level(raw, last_risk_level, risk_level_downgrade_counter) IN
            /\ last_risk_level' = s.last
            /\ risk_level_downgrade_counter' = s.counter
            /\ calls' = Remember(calls, [raw |-> raw, held |-> last_risk_level,
                                         counter |-> risk_level_downgrade_counter, ret |-> s.ret])
            /\ risk_result' = [frame |-> frame_id + 1, raw_risk_level |-> raw,
                               risk_level |-> s.ret, stabilized |-> TRUE]
            /\ IF enable_tcp /\ level_changed(s.ret, current_risk_level)
               THEN \* self.tcp_client.send_message(message) is entered
                    /\ msg' = [msg EXCEPT !["proc"] = PipeEvent(s.ret)]
                    /\ pc' = [pc EXCEPT !["proc"] = "sm_check"]
               ELSE UNCHANGED <<pc, msg>>
    /\ UNCHANGED <<enable_tcp, is_running, current_risk_level, clientVars, envVars,
                   accepted, sru_call>>

\* tracks: which tracks the active-tracks snapshot holds; raw: the level
\* calculate_dynamic_risk_level returns for the frame
calculate_risk(tracks, raw) ==
    /\ is_running
    /\ pc["proc"] = "idle"
    /\ frame_id' = frame_id + 1
    /\ IF tracks = "none"
       THEN \* no Airplane: return None
            /\ risk_result' = [NoResult EXCEPT !.frame = frame_id + 1]
            /\ UNCHANGED <<last_risk_level, risk_level_downgrade_counter, calls, pc, msg>>
       ELSE IF tracks = "airplane"
       THEN \* Airplane without Flock: BR_LOW, returned before the hysteresis
            /\ risk_result' = [frame |-> frame_id + 1, raw_risk_level |-> None,
                               risk_level |-> "BR_LOW", stabilized |-> FALSE]
            /\ UNCHANGED <<last_risk_level, risk_level_downgrade_counter, calls, pc, msg>>
       ELSE LET s == get_stable_risk_level(raw, last_risk_level, risk_level_downgrade_counter) IN
            /\ last_risk_level' = s.last
            /\ risk_level_downgrade_counter' = s.counter
            /\ calls' = Remember(calls, [raw |-> raw, held |-> last_risk_level,
                                         counter |-> risk_level_downgrade_counter, ret |-> s.ret])
            /\ risk_result' = [frame |-> frame_id + 1, raw_risk_level |-> raw,
                               risk_level |-> s.ret, stabilized |-> TRUE]
            /\ IF enable_tcp /\ level_changed(s.ret, current_risk_level)
               THEN \* self.tcp_client.send_message(message) is entered
                    /\ msg' = [msg EXCEPT !["proc"] = PipeEvent(s.ret)]
                    /\ pc' = [pc EXCEPT !["proc"] = "sm_check"]
               ELSE UNCHANGED <<pc, msg>>
    /\ UNCHANGED <<enable_tcp, is_running, current_risk_level, clientVars, envVars,
                   accepted, sru_call>>

\* ---------------------------------------------------------- send_message
\* send_message returns to its caller: calculate_risk records the level as
\* reported whatever was returned; _sender_worker calls task_done and loops
sm_return(t) ==
    /\ msg' = [msg EXCEPT ![t] = NoMsg]
    /\ IF t = "proc"
       THEN /\ current_risk_level' = msg[t].result
            /\ pc' = [pc EXCEPT ![t] = "idle"]
       ELSE /\ current_risk_level' = current_risk_level
            /\ pc' = [pc EXCEPT ![t] = "get"]

\* the socket is connected and no sendall on it has raised so far
sendall_ok == socket # 0 /\ socket \in link

\* socket.sendall(data): it raises on None and on a socket that is not
\* connected or has raised before, and it may raise on a live one (the server
\* has dropped the connection); otherwise the data reach the server
sendall(t, data, raised) ==
    /\ ~sendall_ok => raised
    /\ IF raised
       THEN /\ link' = link \ {socket}
            /\ connected' = FALSE
            /\ wire' = wire
       ELSE /\ wire' = [wire EXCEPT ![socket] = Append(@, data)]
            /\ UNCHANGED <<link, connected>>

\* if not self.connected: return False
sm_check(t) ==
    /\ pc[t] = "sm_check"
    /\ IF ~connected
       THEN sm_return(t)
       ELSE /\ pc' = [pc EXCEPT ![t] = "sm_len"]
            /\ UNCHANGED <<msg, current_risk_level>>
    /\ UNCHANGED <<enable_tcp, is_running, last_risk_level, risk_level_downgrade_counter,
                   frame_id, risk_result, calls, clientVars, envVars, accepted, sru_call>>
    /\ UNCHANGED <<trackerVars, riskVars, queueVars, geoVars, heapVars>>

\* self.socket.sendall(length_bytes)
sm_len(t) ==
    /\ pc[t] = "sm_len"
    /\ \E raised \in BOOLEAN :
          /\ sendall(t, LengthChunk(msg[t]), raised)
          /\ IF raised
             THEN sm_return(t)
             ELSE /\ pc' = [pc EXCEPT ![t] = "sm_body"]
                  /\ UNCHANGED <<msg, current_risk_level>>
    /\ UNCHANGED <<enable_tcp, is_running, last_risk_level, risk_level_downgrade_counter,
                   frame_id, risk_result, calls, running, socket, message_queue,
                   last_sent_risk, last_send_time, last_heartbeat, rw_time,
                   now, ticks, next_conn, accepted, sru_call>>
    /\ UNCHANGED <<trackerVars, riskVars, queueVars, geoVars, heapVars>>

\* self.socket.sendall(message_bytes); return True
sm_body(t) ==
    /\ pc[t] = "sm_body"
    /\ \E raised \in BOOLEAN : sendall(t, BodyChunk(msg[t]), raised)
    /\ sm_return(t)
    /\ UNCHANGED <<enable_tcp, is_running, last_risk_level, risk_level_downgrade_counter,
                   frame_id, risk_result, calls, running, socket, message_queue,
                   last_sent_risk, last_send_time, last_heartbeat, rw_time,
                   now, ticks, next_conn, accepted, sru_call>>
    /\ UNCHANGED <<trackerVars, riskVars, queueVars, geoVars, heapVars>>

send_message(t) == sm_check(t) \/ sm_len(t) \/ sm_body(t)

\* ------------------------------------------------------- _sender_worker
\* message = self.message_queue.get(timeout=1.0), then the test of
\* self.connected: send_message(message) is entered, or an event goes back
\* to the tail of the queue and any other message is dropped; task_done().
\* The get and the test are one step: the other threads only append to the
\* queue, so a step of theirs between the two can as well come before the get.
sw_get ==
    /\ running
    /\ pc["sender"] = "get"
    /\ message_queue # <<>>
    /\ IF connected
       THEN /\ msg' = [msg EXCEPT !["sender"] = Head(message_queue)]
            /\ message_queue' = Tail(message_queue)
            /\ pc' = [pc EXCEPT !["sender"] = "sm_check"]
       ELSE /\ message_queue' = IF Head(message_queue).type = "event"
                                THEN Append(Tail(message_queue), Head(message_queue))
                                ELSE Tail(message_queue)
            /\ UNCHANGED <<msg, pc>>
    /\ UNCHANGED <<pipeVars, running, connected, socket, last_sent_risk, last_send_time,
                   last_heartbeat, rw_time, envVars, accepted, sru_call>>
    /\ UNCHANGED <<trackerVars, riskVars, queueVars, geoVars, heapVars>>

\* ----------------------------------------------------- _reconnect_worker
\* as rw_loop, but a disconnected client is left alone
rw_loop_no_retry ==
    /\ running
    /\ pc["reconn"] = "loop"
    /\ connected
    /\ \E current_time \in Readings :
          /\ time_time(current_time, 0)
          /\ current_time - last_heartbeat > heartbeat_interval
          /\ message_queue' = Append(message_queue, Heartbeat(current_time))
          /\ last_heartbeat' = current_time
          /\ UNCHANGED <<next_conn, socket, rw_time, pc>>
    /\ UNCHANGED <<pipeVars, msg, running, connected, last_sent_risk, last_send_time,
                   link, wire, accepted, sru_call>>
    /\ UNCHANGED <<trackerVars, riskVars, queueVars, geoVars, heapVars>>

\* one pass of the loop up to the blocking connect: a new socket object when
\* disconnected, a heartbeat when the last one is more than 30 s old
rw_loop ==
    /\ running
    /\ pc["reconn"] = "loop"
    /\ \E current_time \in Readings :
          /\ time_time(current_time, IF connected THEN 0 ELSE 1)
          /\ IF ~connected
             THEN /\ Events < MaxEvents
                  /\ next_conn' = next_conn + 1
                  /\ socket' = next_conn + 1
                  /\ rw_time' = current_time
                  /\ pc' = [pc EXCEPT !["reconn"] = "connect"]
                  /\ UNCHANGED <<message_queue, last_heartbeat>>
             ELSE /\ current_time - last_heartbeat > heartbeat_interval
                  /\ message_queue' = Append(message_queue, Heartbeat(current_time))
                  /\ last_heartbeat' = current_time
                  /\ UNCHANGED <<next_conn, socket, rw_time, pc>>
    /\ UNCHANGED <<pipeVars, msg, running, connected, last_sent_risk, last_send_time,
                   link, wire, accepted, sru_call>>
    /\ UNCHANGED <<trackerVars, riskVars, queueVars, geoVars, heapVars>>

\* self.socket.connect(...) returns or raises: connected and the queued
\* "connected" notice, or _disconnect()
rw_connect ==
    /\ pc["reconn"] = "connect"
    /\ \E ok \in BOOLEAN :
          /\ socket = 0 => ~ok      \* stop() has closed the socket: connect raises
          /\ connect_result(ok, socket, 0)
          /\ last_heartbeat' = IF ok THEN rw_time ELSE last_heartbeat
          /\ next_conn' = IF ok THEN next_conn ELSE next_conn - 1
    /\ pc' = [pc EXCEPT !["reconn"] = "loop"]
    /\ UNCHANGED <<pipeVars, msg, running, last_sent_risk, last_send_time, rw_time,
                   wire, accepted, sru_call>>
    /\ UNCHANGED <<trackerVars, riskVars, queueVars, geoVars, heapVars>>

\* ------------------------------------------------------ send_risk_update
\* as send_risk_update, but the interval is compared with <= for <
send_risk_update_le(risk_level) ==
    /\ Events < MaxEvents
    /\ sru_call' = [n |-> sru_call.n + 1, level |-> risk_level]
    /\ \E current_time \in Readings :
          /\ time_time(current_time, 1)
          /\ IF last_sent_risk = risk_level
                /\ current_time - last_send_time <= min_send_interval
             THEN UNCHANGED <<message_queue, last_sent_risk, last_send_time, accepted>>
             ELSE /\ message_queue' = Append(message_queue, ClientEvent(risk_level, current_time))
                  /\ last_sent_risk' = risk_level
                  /\ last_send_time' = current_time
                  /\ accepted' = Append(accepted, ClientEvent(risk_level, current_time))
    /\ UNCHANGED <<pipeVars, pc, msg, running, connected, socket, last_heartbeat, rw_time,
                   next_conn, link, wire>>
    /\ UNCHANGED <<trackerVars, riskVars, queueVars, geoVars, heapVars>>

\* the queue is unbounded, so put_nowait never raises queue.Full
send_risk_update(risk_level) ==
    /\ Events < MaxEvents
    /\ sru_call' = [n |-> sru_call.n + 1, level |-> risk_level]
    /\ \E current_time \in Readings :
          /\ time_time(current_time, 1)
          /\ IF last_sent_risk = risk_level
                /\ current_time - last_send_time < min_send_interval
             THEN UNCHANGED <<message_queue, last_sent_risk, last_send_time, accepted>>
             ELSE /\ message_queue' = Append(message_queue, ClientEvent(risk_level, current_time))
                  /\ last_sent_risk' = risk_level
                  /\ last_send_time' = current_time
                  /\ accepted' = Append(accepted, ClientEvent(risk_level, current_time))
    /\ UNCHANGED <<pipeVars, pc, msg, running, connected, socket, last_heartbeat, rw_time,
                   next_conn, link, wire>>
    /\ UNCHANGED <<trackerVars, riskVars, queueVars, geoVars, heapVars>>

\* --------------------------------------------------------- SessionTracker
Positions == {<<0, 0>>, <<30, 40>>, <<600, 0>>}
Detections == [airplane : Positions \cup {NoPosition}, flock : BOOLEAN]

\* the square of np.sqrt(dx**2 + dz**2)
Dist2(p, q) == (p[1] - q[1]) * (p[1] - q[1]) + (p[2] - q[2]) * (p[2] - q[2])

\* as position_jumped, but a move of exactly the threshold is a jump too
position_jumped_or_equal(p, q) == Dist2(p, q) >= position_jump_threshold * position_jump_threshold

\* distance > self.position_jump_threshold
position_jumped(p, q) == Dist2(p, q) > position_jump_threshold * position_jump_threshold

\* as end_current_session, but the length test is left out
end_current_session_any(d) ==
    Append(sessions, [session_id |-> current_session_id,
                      start_frame |-> d.start_frame, end_frame |-> d.last_frame])

\* self.sessions after _end_current_session: a session shorter than
\* min_session_length is dropped
end_current_session(d) ==
    IF d.last_frame - d.start_frame + 1 < min_session_length
    THEN sessions
    ELSE Append(sessions, [session_id |-> current_session_id,
                           start_frame |-> d.start_frame, end_frame |-> d.last_frame])

\* self.current_session_data of _start_new_session
start_new_session(start_frame) ==
    [start_frame |-> start_frame, last_frame |-> start_frame,
     airplane_positions |-> NoPositions, flock_positions |-> 0,
     airplane_velocities |-> NoVelocities]

\* a quotient num / den of two whole numbers, den > 0, kept as the pair
Quotient(num, den) == [num |-> num, den |-> den]

\* two quotients are the same number
SameNumber(a, b) == a.num * b.den = b.num * a.den

\* the entry (frame_number, vx, vz) update appends to airplane_velocities:
\* the position difference over dt = frame_number - self.last_frame_number
update_velocity(prev_frame, prev_pos, frame, pos) ==
    <<frame, Quotient(pos[1] - prev_pos[1], frame - prev_frame),
             Quotient(pos[2] - prev_pos[2], frame - prev_frame)>>

\* nominal frames per second of Session._recalculate_velocities
fps == 30

\* the entry (curr_frame, vx, vz) of Session._recalculate_velocities for two
\* consecutive positions: the position difference over
\* dt = (curr_frame - prev_frame) / 30.0
recalculate_velocity(prev_frame, prev_pos, frame, pos) ==
    <<frame, Quotient((pos[1] - prev_pos[1]) * fps, frame - prev_frame),
             Quotient((pos[2] - prev_pos[2]) * fps, frame - prev_frame)>>

\* .append((frame_number, vx, vz))
append_velocity(vs, v) == [n |-> vs.n + 1, last |-> v]

\* .append((frame_number, x, z))
append_position(ps, pos) ==
    [n |-> ps.n + 1, first |-> IF ps.n = 0 THEN pos ELSE ps.first, last |-> pos]

\* the jump of the last frame pair in a session, and for how many frames
\* the Airplane has been at the position it jumped to
observe_jump(det) ==
    IF det.airplane = NoPosition \/ ~in_session \/ last_airplane_position = NoPosition
    THEN NoJump
    ELSE IF position_jumped(det.airplane, last_airplane_position)
    THEN [id |-> current_session_id, to |-> det.airplane, stayed |-> 1]
    ELSE IF jump.to = det.airplane
    THEN [jump EXCEPT !.stayed = @ + 1]
    ELSE NoJump

\* update on a frame with an Airplane at pos: the jump bookkeeping, the
\* session opened or, on a sustained jump, closed and opened again, then the
\* frame's data added to the session
update_airplane(number, pos, flock) ==
    LET compared == last_airplane_position # NoPosition
        jumped == compared /\ position_jumped(pos, last_airplane_position)
        count == IF ~compared THEN jump_frames_count
                 ELSE IF ~jumped THEN 0
                 ELSE IF jump_start_frame = NoFrame THEN 1
                 ELSE jump_frames_count + 1
        start == IF ~compared THEN jump_start_frame
                 ELSE IF ~jumped THEN NoFrame
                 ELSE IF jump_start_frame = NoFrame THEN number
                 ELSE jump_start_frame
        sustained_jump == count >= jump_duration_threshold
        new_session == ~in_session \/ sustained_jump
        data == IF new_session THEN start_new_session(number) ELSE current_session_data
    IN  /\ sessions' = IF in_session /\ sustained_jump
                       THEN end_current_session(current_session_data)
                       ELSE sessions
        /\ in_session' = TRUE
        /\ current_session_id' = IF new_session THEN current_session_id + 1
                                 ELSE current_session_id
        /\ jump_start_frame' = IF new_session THEN NoFrame ELSE start
        /\ jump_frames_count' = IF new_session THEN 0 ELSE count
        /\ current_session_data' =
               [data EXCEPT !.last_frame = number,
                            !.airplane_positions = append_position(@, pos),
                            !.airplane_velocities =
                                IF compared /\ last_frame_number # NoFrame
                                   /\ number > last_frame_number
                                THEN append_velocity(@, update_velocity(last_frame_number,
                                                        last_airplane_position, number, pos))
                                ELSE @,
                            !.flock_positions = IF flock THEN @ + 1 ELSE @]
        /\ last_airplane_position' = pos
        /\ last_frame_number' = number

\* as update_absent, but the session is left open
update_absent_keep_open ==
    /\ jump_start_frame' = NoFrame
    /\ jump_frames_count' = 0
    /\ UNCHANGED <<sessions, in_session, current_session_id, current_session_data,
                   last_airplane_position, last_frame_number>>

\* update on a frame without an Airplane: the session is closed and the
\* jump bookkeeping reset
update_absent ==
    /\ sessions' = IF in_session THEN end_current_session(current_session_data)
                   ELSE sessions
    /\ in_session' = FALSE
    /\ jump_start_frame' = NoFrame
    /\ jump_frames_count' = 0
    /\ UNCHANGED <<current_session_id, current_session_data,
                   last_airplane_position, last_frame_number>>

\* SessionTracker.update(frame_number, detections)
update(number, det) ==
    IF det.airplane # NoPosition
    THEN update_airplane(number, det.airplane, det.flock)
    ELSE update_absent

\* the frame numbers of consecutive calls: the next frame, or a gap of
\* skipped and empty frames
FrameSteps == {1, min_session_length}

\* a caller of the tracker hands it the points of a later frame
TrackerUpdate ==
    \E step \in FrameSteps, det \in Detections :
       /\ updates < MaxUpdates
       /\ updates' = updates + 1
       /\ frame_number' = frame_number + step
       /\ points' = det
       /\ jump' = observe_jump(det)
       /\ update(frame_number + step, det)
       /\ UNCHANGED <<skip_counter, detect_calls, pipeVars, pc, msg, clientVars, envVars,
                      accepted, sru_call, riskVars, queueVars, geoVars, heapVars>>

\* SessionTracker.finalize()
finalize ==
    /\ updates < MaxUpdates
    /\ updates' = updates + 1
    /\ sessions' = IF in_session THEN end_current_session(current_session_data) ELSE sessions
    /\ in_session' = FALSE
    /\ UNCHANGED <<current_session_id, current_session_data, last_airplane_position,
                   last_frame_number, jump_start_frame, jump_frames_count,
                   skip_counter, detect_calls, frame_number, points, jump>>
    /\ UNCHANGED <<pipeVars, pc, msg, clientVars, envVars, accepted, sru_call, riskVars,
                   queueVars, geoVars, heapVars>>

\* ------------------------------------- the tracker's lists and the snapshot
\* as new_list, but the list the session data held is emptied and kept
reused_list(held, fresh) == IF held = 0 THEN fresh ELSE held

\* 'airplane_positions': [] of _start_new_session: a list of its own
new_list(held, fresh) == fresh

\* [(x, z) for _, x, z in ...] of get_active_tracks_from_sessions
positions_of(entries) == [i \in 1..Len(entries) |-> <<entries[i][2], entries[i][3]>>]

\* [(vx, vz) for _, vx, vz in ...]
velocities_of(entries) == [i \in 1..Len(entries) |-> <<entries[i][2], entries[i][3]>>]

\* what update(number, det) and the get_active_tracks_from_sessions that
\* follows it do to the list objects: _end_current_session hands the lists
\* of current_session_data to the Session it appends, _start_new_session
\* gives current_session_data empty lists, update appends to the lists of
\* current_session_data, and the snapshot's lists are built from them
tracker_lists(number, det) ==
    LET opened == current_session_id' # current_session_id
        closed == Len(sessions') > Len(sessions)
        held == IF opened
                THEN [positions |-> new_list(current_lists.positions, Len(lists) + 1),
                      velocities |-> new_list(current_lists.velocities, Len(lists) + 2)]
                ELSE current_lists
        allocated == IF opened THEN lists \o <<<<>>, <<>>>> ELSE lists
        started == IF opened
                   THEN [allocated EXCEPT ![held.positions] = <<>>, ![held.velocities] = <<>>]
                   ELSE allocated
        had == IF opened THEN 0 ELSE current_session_data.airplane_velocities.n
        with_position ==
            IF det.airplane # NoPosition
            THEN [started EXCEPT ![held.positions] =
                     Append(@, <<number, det.airplane[1], det.airplane[2]>>)]
            ELSE started
        with_velocity ==
            IF det.airplane # NoPosition /\ current_session_data'.airplane_velocities.n > had
            THEN [with_position EXCEPT ![held.velocities] =
                     Append(@, current_session_data'.airplane_velocities.last)]
            ELSE with_position
        tracked == in_session' /\ current_session_data'.airplane_positions.n > 0
    IN  /\ session_lists' = IF closed THEN Append(session_lists, current_lists)
                            ELSE session_lists
        /\ current_lists' = held
        /\ lists' = IF tracked
                    THEN with_velocity \o <<positions_of(with_velocity[held.positions]),
                                            velocities_of(with_velocity[held.velocities])>>
                    ELSE with_velocity
        /\ snapshot' = IF tracked
                       THEN [positions |-> Len(with_velocity) + 1,
                             velocities |-> Len(with_velocity) + 2]
                       ELSE NoLists

\* process_frame hands the points of a frame to tracker.update and takes
\* the active tracks; the frames are min_session_length apart, so that no
\* session is too short to be kept
tracked_frame ==
    \E det \in Detections :
       LET number == frame_number + min_session_length
       IN  /\ updates < MaxUpdates
           /\ updates' = updates + 1
           /\ frame_number' = number
           /\ points' = det
           /\ jump' = observe_jump(det)
           /\ update(number, det)
           /\ tracker_lists(number, det)
           /\ UNCHANGED <<skip_counter, detect_calls, pipeVars, pc, msg, clientVars, envVars,
                          accepted, sru_call, riskVars, queueVars, geoVars, cleaning>>

\* ------------------------------------------------------- the risk engine
\* lengths are in cm, speeds in cm/s, times in 1/100 s; positions and
\* velocities of tracks are whole m and m/s
RECURSIVE sqrt_between(_, _, _)
sqrt_between(n, lo, hi) ==
    IF lo >= hi THEN lo
    ELSE LET mid == (lo + hi + 1) \div 2 IN
         IF mid * mid <= n THEN sqrt_between(n, mid, hi) ELSE sqrt_between(n, lo, mid - 1)

\* np.sqrt, rounded down to a whole number
sqrt(n) == sqrt_between(n, 0, 40000)

\* np.sqrt(dx**2 + dz**2) of two positions, in cm
xz_distance(p, q) == sqrt(Dist2(p, q) * 10000)

\* calculate_3d_distance: the XZ distance and an altitude difference of 50 m
calculate_3d_distance(airplane_pos, flock_pos) ==
    sqrt((Dist2(airplane_pos, flock_pos) + 50 * 50) * 10000)

\* (airplane velocity - flock velocity) . (airplane position - flock
\* position), in m^2/s
closing_product(airplane, flock) ==
    (airplane.velocity[1] - flock.velocity[1]) * (airplane.position[1] - flock.position[1])
    + (airplane.velocity[2] - flock.velocity[2]) * (airplane.position[2] - flock.position[2])

\* calculate_relative_speed: the relative velocity along the unit vector
\* from the flock to the airplane
calculate_relative_speed(airplane, flock) ==
    IF airplane.velocity = NoVelocity \/ flock.velocity = NoVelocity THEN 0
    ELSE IF xz_distance(airplane.position, flock.position) = 0 THEN 0
    ELSE (closing_product(airplane, flock) * 10000)
            \div xz_distance(airplane.position, flock.position)

Min(a, b) == IF a < b THEN a ELSE b
Max(a, b) == IF a > b THEN a ELSE b

\* calculate_realtime_ttc: distance / closing speed, within 0.1 s and 300 s
calculate_realtime_ttc(airplane, flock) ==
    IF airplane.velocity = NoVelocity \/ flock.velocity = NoVelocity THEN inf
    ELSE LET current_distance == xz_distance(airplane.position, flock.position)
             closing_speed == 0 - calculate_relative_speed(airplane, flock)
         IN  IF current_distance = 0 \/ airplane.velocity = flock.velocity THEN inf
             ELSE IF closing_speed <= 0 THEN inf
             ELSE Max(10, Min(30000, (current_distance * 100) \div closing_speed))

\* the three scores of calculate_dynamic_risk_level, times 2000
distance_score(distance) ==
    IF distance <= 5000 THEN 200000
    ELSE IF distance <= 10000 THEN 160000 - (distance - 5000) * 12
    ELSE IF distance <= 20000 THEN 100000 - (distance - 10000) * 6
    ELSE Max(0, 40000 - (distance - 20000))

speed_score(speed) ==
    IF speed <= 0 THEN 0
    ELSE IF speed <= 1000 THEN speed * 60
    ELSE IF speed <= 3000 THEN 60000 + (speed - 1000) * 50
    ELSE Min(200000, 160000 + (speed - 3000) * 20)

ttc_score(t) ==
    IF t = inf THEN 0
    ELSE IF t <= 500 THEN 200000
    ELSE IF t <= 1500 THEN 200000 - (t - 500) * 100
    ELSE IF t <= 3000 THEN 100000 - (t - 1500) * 40
    ELSE Max(0, 40000 - (t - 3000) * 10)

\* the level calculate_dynamic_risk_level returns: the distance floors, the
\* TTC floors, then the weighted score (times 20000) against 80 and 60
calculate_dynamic_risk_level(distance, speed, t) ==
    IF distance < 5000 THEN "BR_HIGH"
    ELSE IF distance < 10000 THEN "BR_MEDIUM"
    ELSE IF t # inf /\ t < 500 THEN "BR_HIGH"
    ELSE IF t # inf /\ t < 1200 THEN "BR_MEDIUM"
    ELSE LET risk_score == (distance_score(distance) * 4 + speed_score(speed) * 3
                            + ttc_score(t) * 3) * 2
         IN  IF risk_score >= 1600000 THEN "BR_HIGH"
             ELSE IF risk_score >= 1200000 THEN "BR_MEDIUM"
             ELSE "BR_LOW"

TrackPositions == {<<0, 0>>, <<30, 40>>, <<60, 80>>, <<120, 160>>}
Velocities == {NoVelocity, <<0, 0>>, <<5, 0>>, <<0 - 15, 0 - 20>>, <<60, 80>>}
Tracks == [position : TrackPositions, velocity : Velocities]

\* calculate_risk measures a frame with both tracks and no route assigned:
\* the hybrid distance is the direct distance
measure_tracks ==
    \E airplane \in Tracks, flock \in Tracks :
       /\ airplane_track' = airplane
       /\ flock_track' = flock
       /\ hybrid_distance' = calculate_3d_distance(airplane.position, flock.position)
       /\ relative_speed' = calculate_relative_speed(airplane, flock)
       /\ ttc' = calculate_realtime_ttc(airplane, flock)
       /\ raw_risk_level' = calculate_dynamic_risk_level(hybrid_distance', relative_speed', ttc')
       /\ UNCHANGED <<pipeVars, pc, msg, clientVars, envVars, accepted, sru_call, trackerVars,
                      queueVars, geoVars, heapVars>>

Distances == {4999, 5000, 7500, 9999, 10000, 15000, 40000}
Speeds == {0 - 1000, 0, 1000, 4000}
Times == {inf, 10, 499, 500, 1199, 1200, 3000}

\* calculate_dynamic_risk_level called with a hybrid distance, a relative
\* speed and a TTC
measure_values ==
    \E distance \in Distances, speed \in Speeds, t \in Times :
       /\ airplane_track' = NoTrack
       /\ flock_track' = NoTrack
       /\ hybrid_distance' = distance
       /\ relative_speed' = speed
       /\ ttc' = t
       /\ raw_risk_level' = calculate_dynamic_risk_level(distance, speed, t)
       /\ UNCHANGED <<pipeVars, pc, msg, clientVars, envVars, accepted, sru_call, trackerVars,
                      queueVars, geoVars, heapVars>>

\* ---------------------------------------------------------- process_frame
\* what a frame holds: whether YOLO detects anything, and the triangulated
\* points (none at all: NoPoints)
Frames == [detections : BOOLEAN, points : Detections]

\* get_active_tracks_from_sessions, of the tracker as update leaves it: the
\* tracks of the open session
active_tracks ==
    IF in_session' /\ current_session_data'.airplane_positions.n > 0
    THEN IF current_session_data'.flock_positions > 0 THEN "both" ELSE "airplane"
    ELSE "none"

\* process_frame returns None before the tracker is reached
frame_dropped ==
    /\ frame_id' = frame_id + 1
    /\ UNCHANGED <<enable_tcp, is_running, last_risk_level, risk_level_downgrade_counter,
                   current_risk_level, risk_result, calls, pc, msg, clientVars, envVars,
                   accepted, sru_call>>
    /\ UNCHANGED <<sessions, current_session_id, in_session, current_session_data,
                   last_airplane_position, last_frame_number, jump_start_frame,
                   jump_frames_count, frame_number, updates, jump>>

\* as frame_skipped, but the counter is tested before it is incremented
frame_skipped_before(counter) == (counter - 1) % self_frame_skip # 0

\* if self.skip_counter % self.frame_skip != 0, of the incremented counter
frame_skipped(counter) == counter % self_frame_skip # 0

\* RealTimePipeline.process_frame on the next frame: the frame skip, the
\* detection, the triangulation, tracker.update, calculate_risk
process_frame ==
    /\ is_running
    /\ pc["proc"] = "idle"
    /\ frame_id < MaxFrames
    /\ skip_counter' = skip_counter + 1
    /\ UNCHANGED riskVars
    /\ IF frame_skipped(skip_counter + 1)
       THEN /\ detect_calls' = detect_calls
            /\ frame_dropped
            /\ points' = points
       ELSE /\ detect_calls < MaxDetections
            /\ detect_calls' = detect_calls + 1
            /\ \E frame \in Frames, raw \in Levels :
                  IF ~frame.detections \/ frame.points = NoPoints
                  THEN /\ frame_dropped
                       /\ points' = NoPoints
                  ELSE /\ points' = frame.points
                       /\ frame_number' = frame_id + 1
                       /\ updates' = updates + 1
                       /\ jump' = observe_jump(frame.points)
                       /\ update(frame_id + 1, frame.points)
                       /\ calculate_risk(active_tracks, raw)

\* ----------------------------------------------------- watch_unity_frames
\* the file that follows f in the folder of a camera of Recording r
next_file(f, r) == IF f = NoFile THEN <<r, 1>> ELSE <<f[1], f[2] + 1>>

\* what one pass of the watcher can find: the latest Recording folder (0:
\* there is none), and per camera the last of its sorted image files.  Unity
\* only adds: a newer Recording folder, or newer files in a camera's folder
Recordings ==
    IF current_recording_dir = 0 THEN {0, 1}
    ELSE {current_recording_dir, current_recording_dir + 1}

\* what a run with TCP disabled has used of MaxIdlePolls
IdlePolls ==
    (polls - frame_count) + (IF current_recording_dir = 0 THEN 0 ELSE current_recording_dir - 1)

\* the latest file of each camera when those of `advanced` have a file the
\* watcher has not seen in Recording r
latest_files(advanced, r, processed) ==
    [letter \in Cameras |-> IF letter \in advanced THEN next_file(processed[letter], r)
                            ELSE processed[letter]]

\* as enough_cameras, but one camera is enough
enough_cameras_one(n) == n >= 1

\* len(new_frames) >= 2
enough_cameras(n) == n >= 2

\* as queue_get, but the bundle put last is taken
queue_get_last(q) == [item |-> q[Len(q)], rest |-> SubSeq(q, 1, Len(q) - 1)]

\* self.frame_queue.get: the bundle put first
queue_get(q) == [item |-> Head(q), rest |-> Tail(q)]

\* one pass of the loop of watch_unity_frames: the latest Recording folder,
\* last_processed reset when it is a new one, the cameras with a new latest
\* file, and the bundle put on the queue or dropped when the queue is full
watch_unity_frames ==
    /\ is_running
    /\ pc["watch"] = "loop"
    /\ IF enable_tcp THEN Events < MaxEvents ELSE polls < MaxPolls
    /\ polls' = polls + 1
    /\ \E latest_recording \in Recordings :
          IF latest_recording = 0
          THEN \* no Recording folder: time.sleep(2.0); continue
               /\ enable_tcp \/ IdlePolls < MaxIdlePolls
               /\ UNCHANGED <<frame_queue, frame_count, current_recording_dir, last_processed,
                           new_frames, emitted>>
          ELSE LET processed == IF latest_recording # current_recording_dir
                                THEN [letter \in Cameras |-> NoFile]
                                ELSE last_processed
               IN  \E advanced \in SUBSET camera_letters :
                      LET latest == latest_files(advanced, latest_recording, processed)
                          fresh == {letter \in camera_letters :
                                       /\ latest[letter] # NoFile
                                       /\ latest[letter] # processed[letter]}
                          all_cameras_ready == fresh = camera_letters
                          images == [letter \in fresh |-> latest[letter]]
                          bundle == [frame_id |-> frame_count, images |-> images]
                          found == IF latest_recording > 1
                                      /\ latest_recording # current_recording_dir
                                   THEN 1 ELSE 0
                      IN  /\ enable_tcp \/ IdlePolls + found <= MaxIdlePolls
                          /\ current_recording_dir' = latest_recording
                          /\ last_processed' = [letter \in Cameras |->
                                                  IF letter \in fresh THEN latest[letter]
                                                  ELSE processed[letter]]
                          /\ new_frames' = images
                          /\ IF /\ all_cameras_ready
                                /\ fresh # {}
                                /\ enough_cameras(Cardinality(fresh))
                                /\ Len(frame_queue) < frame_queue_maxsize
                             THEN /\ frame_queue' = Append(frame_queue, bundle)
                                  /\ frame_count' = frame_count + 1
                                  /\ emitted' = bundle
                             ELSE \* not all cameras are ready, or queue.Full
                                  /\ enable_tcp \/ IdlePolls + found < MaxIdlePolls
                                  /\ UNCHANGED <<frame_queue, frame_count, emitted>>
    /\ UNCHANGED <<self_frame_skip, camera_letters, frame_data>>
    /\ UNCHANGED <<pipeVars, pc, msg, clientVars, envVars, accepted, sru_call, trackerVars,
                   riskVars, geoVars, heapVars>>

\* --------------------------------- watch_unity_frames, without an end of run
\* The watcher only compares a camera's latest file with the one it saw
\* last, so the files of a camera are told apart by a number that starts
\* again after MaxFileNumber, one Recording folder follows another up to
\* MaxRecordings, and the watcher is followed up to its MaxBundles-th bundle.
MaxFileNumber == 3
MaxRecordings == 2
MaxBundles == 2
next_file_again(f, r) ==
    IF f = NoFile \/ f[2] = MaxFileNumber THEN <<r, 1>> ELSE <<f[1], f[2] + 1>>

\* one pass of the loop of watch_unity_frames, as watch_unity_frames but
\* with the passes not counted
watch_pass ==
    /\ is_running
    /\ pc["watch"] = "loop"
    /\ frame_count < MaxBundles
    /\ \E latest_recording \in {r \in Recordings : r <= MaxRecordings} :
          IF latest_recording = 0
          THEN \* no Recording folder: time.sleep(2.0); continue
               UNCHANGED <<frame_queue, frame_count, current_recording_dir, last_processed,
                           new_frames, emitted>>
          ELSE LET processed == IF latest_recording # current_recording_dir
                                THEN [letter \in Cameras |-> NoFile]
                                ELSE last_processed
               IN  \E advanced \in SUBSET camera_letters :
                      LET latest == [letter \in Cameras |->
                                        IF letter \in advanced
                                        THEN next_file_again(processed[letter], latest_recording)
                                        ELSE processed[letter]]
                          fresh == {letter \in camera_letters :
                                       /\ latest[letter] # NoFile
                                       /\ latest[letter] # processed[letter]}
                          all_cameras_ready == fresh = camera_letters
                          images == [letter \in fresh |-> latest[letter]]
                          bundle == [frame_id |-> frame_count, images |-> images]
                      IN  /\ current_recording_dir' = latest_recording
                          /\ last_processed' = [letter \in Cameras |->
                                                  IF letter \in fresh THEN latest[letter]
                                                  ELSE processed[letter]]
                          /\ new_frames' = images
                          /\ IF /\ all_cameras_ready
                                /\ fresh # {}
                                /\ enough_cameras(Cardinality(fresh))
                                /\ Len(frame_queue) < frame_queue_maxsize
                             THEN /\ frame_queue' = Append(frame_queue, bundle)
                                  /\ frame_count' = frame_count + 1
                                  /\ emitted' = bundle
                             ELSE \* not all cameras are ready, or queue.Full
                                  UNCHANGED <<frame_queue, frame_count, emitted>>
    /\ UNCHANGED <<self_frame_skip, camera_letters, frame_data, polls>>
    /\ UNCHANGED <<pipeVars, pc, msg, clientVars, envVars, accepted, sru_call, trackerVars,
                   riskVars, geoVars, heapVars>>

\* ---------------------------------------------------- process_frames_worker
\* frame_data = self.frame_queue.get(timeout=1.0) finds a bundle, and
\* self.process_frame(frame_data)
process_frames_worker ==
    /\ frame_queue # <<>>
    /\ enable_tcp => Events < MaxEvents
    /\ frame_data' = queue_get(frame_queue).item
    /\ frame_queue' = queue_get(frame_queue).rest
    /\ process_frame
    /\ UNCHANGED <<self_frame_skip, camera_letters, frame_count, current_recording_dir,
                   last_processed, new_frames, emitted, polls>>
    /\ UNCHANGED <<geoVars, heapVars>>

\* ------------------------------------------------------------------ stop()
\* BDSTCPClient.stop: the client's flag is cleared and _disconnect closes
\* the socket; each join gives up after 2 s
tcp_client_stop ==
    /\ running' = FALSE
    /\ connected' = FALSE
    /\ socket' = 0
    /\ link' = link \ {socket}
    /\ UNCHANGED <<message_queue, last_sent_risk, last_send_time, last_heartbeat, rw_time,
                   now, ticks, next_conn, wire>>

\* RealTimePipeline.stop: the shutdown flag is cleared, the TCP client if
\* there is one is stopped, and after time.sleep(2.0) stop returns
stop ==
    /\ is_running
    /\ enable_tcp => Events < MaxEvents     \* the run has not used all of MaxEvents
    /\ is_running' = FALSE
    /\ IF enable_tcp THEN tcp_client_stop ELSE UNCHANGED <<clientVars, envVars>>
    /\ UNCHANGED <<enable_tcp, last_risk_level, risk_level_downgrade_counter,
                   current_risk_level, frame_id, risk_result, calls>>
    /\ UNCHANGED <<pc, msg, accepted, sru_call, trackerVars, riskVars, queueVars, geoVars, heapVars>>

\* as wait_ends, but the get has no timeout: it returns only with an item
wait_ends_on_item(q) == q # <<>>

\* a get(timeout=1.0) on queue q returns an item or raises queue.Empty after
\* the timeout: the wait ends whatever the queue holds
wait_ends(q) == TRUE

\* thread t finds its flag cleared at the test of its while loop
leave_loop(t) ==
    /\ pc' = [pc EXCEPT ![t] = "done"]
    /\ UNCHANGED <<pipeVars, msg, clientVars, envVars, accepted, sru_call, trackerVars,
                   riskVars, queueVars, geoVars, heapVars>>

\* watch_unity_frames: while self.is_running, after a sleep or a put that
\* gave up after 0.1 s
watch_exit == ~is_running /\ pc["watch"] = "loop" /\ leave_loop("watch")

\* process_frames_worker: while self.is_running, after the get
proc_exit ==
    /\ ~is_running /\ pc["proc"] = "idle"
    /\ wait_ends(frame_queue)
    /\ leave_loop("proc")

\* _sender_worker: while self.running, after the get
sender_exit ==
    /\ ~running /\ pc["sender"] = "get"
    /\ wait_ends(message_queue)
    /\ leave_loop("sender")

\* _reconnect_worker: while self.running, after time.sleep(reconnect_interval)
reconn_exit == ~running /\ pc["reconn"] = "loop" /\ leave_loop("reconn")

\* -------------------------------------------------------------- triangulate
\* The two cameras of the triangulator's frames are a rectified pair:
\* camera A at the origin and camera B a baseline along x from it, both
\* looking along z with the same focal length and principal point.  For an
\* object seen in the same pixel row by both, the homogeneous point that
\* cv2.triangulatePoints solves for is then, up to scale,
\* (b (uA - cx), b (v - cy), b f, uA - uB).  Lengths are in m, pixels in px.
baseline == 24
focal == 500
principal == <<960, 540>>

ObjectClasses == {"Airplane", "Flock"}
PixelColumns == {1000, 1001, 1002}
PixelRow == 300
\* a detection of detect_objects: confidence in percent
YoloDetections == [camera : Cameras, class : ObjectClasses,
                   center : {<<u, PixelRow>> : u \in PixelColumns}, confidence : {80}]
DetectionLists == UNION {[1..n -> YoloDetections] : n \in 0..MaxObjects}

\* as same_class, but any two detections match
any_class(det1, det2) == TRUE

\* det1['class'] == det2['class']
same_class(det1, det2) == det1.class = det2.class

\* match_objects_simple from the k-th detection of detections1 on: each takes
\* the first detection of detections2 of its class that is not yet used
RECURSIVE match_from(_, _, _, _)
match_from(detections1, detections2, k, used_det2_indices) ==
    IF k > Len(detections1) THEN <<>>
    ELSE LET det1 == detections1[k]
             free == {i \in 1..Len(detections2) :
                         i \notin used_det2_indices /\ same_class(det1, detections2[i])}
         IN  IF free = {}
             THEN match_from(detections1, detections2, k + 1, used_det2_indices)
             ELSE LET i == CHOOSE i \in free : \A j \in free : i <= j
                  IN  <<[class |-> det1.class, det1 |-> det1, det2 |-> detections2[i]]>>
                      \o match_from(detections1, detections2, k + 1,
                                    used_det2_indices \cup {i})

match_objects_simple(detections1, detections2) == match_from(detections1, detections2, 1, {})

\* cv2.triangulatePoints for the projection matrices of cameras cam1 and cam2
triangulatePoints(point1, point2, cam1, cam2) ==
    LET a == IF cam1 = "A" THEN point1 ELSE point2
        b == IF cam1 = "A" THEN point2 ELSE point1
    IN  <<baseline * (a[1] - principal[1]), baseline * (a[2] - principal[2]),
          baseline * focal, a[1] - b[1]>>

\* triangulate_point: the 3D point, None (<<>>) when the homogeneous w is 0
triangulate_point(point1, point2, cam1, cam2) ==
    LET points_4d_hom == triangulatePoints(point1, point2, cam1, cam2)
    IN  IF points_4d_hom[4] # 0
        THEN <<points_4d_hom[1] \div points_4d_hom[4], points_4d_hom[2] \div points_4d_hom[4],
               points_4d_hom[3] \div points_4d_hom[4]>>
        ELSE NoPosition

\* f'Camera_{cam1}-Camera_{cam2}' and f"merged_{n}_flocks"
camera_pair(cam1, cam2) == [cam1 |-> cam1, cam2 |-> cam2, merged |-> 0]
merged_flocks_of(n) == [cam1 |-> "", cam2 |-> "", merged |-> n]

\* the cameras that have detections, in the order the detections name them
RECURSIVE available_cameras(_)
available_cameras(dets) ==
    IF dets = <<>> THEN <<>>
    ELSE LET before == available_cameras(SubSeq(dets, 1, Len(dets) - 1))
             camera == dets[Len(dets)].camera
         IN  IF \E i \in 1..Len(before) : before[i] = camera
             THEN before ELSE Append(before, camera)

camera_detections(dets, camera) == SelectSeq(dets, LAMBDA det : det.camera = camera)

\* the matches of the camera pairs (i, j), i < j, from pair (i, j) on, each
\* with the cameras of its pair
RECURSIVE pair_matches(_, _, _)
pair_matches(dets, i, j) ==
    LET cams == available_cameras(dets)
    IN  IF i > Len(cams) THEN <<>>
        ELSE IF j > Len(cams) THEN pair_matches(dets, i + 1, i + 2)
        ELSE LET found == match_objects_simple(camera_detections(dets, cams[i]),
                                               camera_detections(dets, cams[j]))
             IN  [k \in 1..Len(found) |-> [match |-> found[k], cam1 |-> cams[i],
                                           cam2 |-> cams[j]]]
                 \o pair_matches(dets, i, j + 1)

\* the point appended for a match, <<>> when triangulate_point returns None
point_of(m, frame) ==
    LET point_3d == triangulate_point(m.match.det1.center, m.match.det2.center, m.cam1, m.cam2)
    IN  IF point_3d = NoPosition THEN <<>>
        ELSE <<[frame |-> frame, class |-> m.match.class,
                x |-> point_3d[1], y |-> point_3d[2], z |-> point_3d[3],
                confidence |-> (m.match.det1.confidence + m.match.det2.confidence) \div 2,
                cameras |-> camera_pair(m.cam1, m.cam2)]>>

RECURSIVE points_of(_, _)
points_of(ms, frame) ==
    IF ms = <<>> THEN <<>> ELSE point_of(Head(ms), frame) \o points_of(Tail(ms), frame)

\* np.sqrt(dx**2 + dz**2) < distance_threshold, on the XZ plane
xz_nearby(flock1, flock2, threshold) ==
    (flock1.x - flock2.x) * (flock1.x - flock2.x)
       + (flock1.z - flock2.z) * (flock1.z - flock2.z) < threshold * threshold

RECURSIVE SumOver(_, _)
SumOver(f, S) ==
    IF S = {} THEN 0 ELSE LET i == CHOOSE i \in S : TRUE IN f[i] + SumOver(f, S \ {i})

\* np.mean of a field over the flocks of a merge group
mean(values, group) == SumOver(values, group) \div Cardinality(group)

\* the loop of merge_nearby_flocks_3d from the i-th flock on
RECURSIVE merge_from(_, _, _, _)
merge_from(flocks, i, used_indices, threshold) ==
    IF i > Len(flocks) THEN <<>>
    ELSE IF i \in used_indices THEN merge_from(flocks, i + 1, used_indices, threshold)
    ELSE LET flock1 == flocks[i]
             merge_group == {i} \cup {j \in 1..Len(flocks) :
                                         /\ j \notin used_indices \cup {i}
                                         /\ xz_nearby(flock1, flocks[j], threshold)}
             merged_flock == [frame |-> flock1.frame, class |-> "Flock",
                              x |-> mean([k \in merge_group |-> flocks[k].x], merge_group),
                              y |-> mean([k \in merge_group |-> flocks[k].y], merge_group),
                              z |-> mean([k \in merge_group |-> flocks[k].z], merge_group),
                              confidence |-> mean([k \in merge_group |-> flocks[k].confidence],
                                                  merge_group),
                              cameras |-> merged_flocks_of(Cardinality(merge_group))]
         IN  <<IF Cardinality(merge_group) > 1 THEN merged_flock ELSE flock1>>
             \o merge_from(flocks, i + 1, used_indices \cup merge_group, threshold)

merge_nearby_flocks_3d(pts, threshold) ==
    LET flocks == SelectSeq(pts, LAMBDA p : p.class = "Flock")
        others == SelectSeq(pts, LAMBDA p : p.class # "Flock")
    IN  IF pts = <<>> \/ Len(flocks) <= 1 THEN pts
        ELSE merge_from(flocks, 1, {}, threshold) \o others

triangulate_objects_realtime(dets, n_matrices, frame, threshold) ==
    IF n_matrices < 2 THEN <<>>
    ELSE LET triangulated == points_of(pair_matches(dets, 1, 2), frame)
         IN  IF triangulated # <<>> THEN merge_nearby_flocks_3d(triangulated, threshold)
             ELSE triangulated

\* process_frame hands the detections of the frame to the triangulator
triangulate_frame ==
    /\ triangulations = 0
    /\ triangulations' = 1
    /\ matches' = IF projection_matrices < 2 THEN <<>> ELSE pair_matches(detections, 1, 2)
    /\ triangulated_points' = triangulate_objects_realtime(detections, projection_matrices,
                                                           frame_id, distance_threshold)
    /\ UNCHANGED <<detections, projection_matrices, flight_routes, route_call>>
    /\ UNCHANGED <<pipeVars, pc, msg, clientVars, envVars, accepted, sru_call, trackerVars,
                   riskVars, queueVars, heapVars>>

\* ------------------------------------------- Session._remove_position_outliers
\* An entry of a position list is (frame, x, z).
MaxPositionEntries == 4
EntryFrames == 1..5
EntryPoints == {<<0, 0>>, <<72, 96>>, <<90, 120>>, <<91, 120>>}
\* the default of clean_data and what process_sessions passes
OutlierThresholds == {150, 120}
\* position lists as the tracker appends them, one entry per frame
PositionLists ==
    UNION {{l \in [1..n -> EntryFrames \X EntryPoints] :
               \A i \in 1..(n - 1) : l[i][1] < l[i + 1][1]} : n \in 0..MaxPositionEntries}
\* an entry as the tuple (frame, x, z)
entry_of(pair) == <<pair[1], pair[2][1], pair[2][2]>>

\* as speed_within, but a speed equal to the threshold is not within it
speed_below(prev, curr, threshold) ==
    LET frame_gap == Max(1, curr[1] - prev[1])
    IN  Dist2(<<curr[2], curr[3]>>, <<prev[2], prev[3]>>)
           < threshold * threshold * frame_gap * frame_gap

\* dist / frame_gap <= threshold for the entries prev and curr, prev the
\* earlier one: both sides are not negative, so their squares compare alike
speed_within(prev, curr, threshold) ==
    LET frame_gap == Max(1, curr[1] - prev[1])
    IN  Dist2(<<curr[2], curr[3]>>, <<prev[2], prev[3]>>)
           <= threshold * threshold * frame_gap * frame_gap

\* the loop of _remove_position_outliers from the i-th entry on (1-based)
RECURSIVE outliers_loop(_, _, _, _)
outliers_loop(positions, threshold, i, cleaned) ==
    IF i > Len(positions) THEN cleaned
    ELSE IF i = 1 \/ i = Len(positions)
    THEN outliers_loop(positions, threshold, i + 1, Append(cleaned, positions[i]))
    ELSE IF /\ speed_within(positions[i - 1], positions[i], threshold)
            /\ speed_within(positions[i], positions[i + 1], threshold)
    THEN outliers_loop(positions, threshold, i + 1, Append(cleaned, positions[i]))
    ELSE outliers_loop(positions, threshold, i + 1, cleaned)

remove_position_outliers(positions, threshold) ==
    IF Len(positions) < 3 THEN positions
    ELSE outliers_loop(positions, threshold, 1, <<>>)

\* a call of _remove_position_outliers on the list it was handed
clean_positions ==
    /\ cleaning.calls = 0
    /\ cleaning' = [cleaning EXCEPT
                       !.cleaned = remove_position_outliers(cleaning.positions,
                                                            cleaning.threshold),
                       !.calls = 1]
    /\ UNCHANGED <<lists, current_lists, session_lists, snapshot>>
    /\ UNCHANGED <<pipeVars, pc, msg, clientVars, envVars, accepted, sru_call, trackerVars,
                   riskVars, queueVars, geoVars>>

\* ------------------------------------------------ RouteBasedRiskCalculator
\* Positions are in m.  A distance is held as its square, which orders and
\* equates as np.linalg.norm does; float('inf') is inf.
RouteNames == {"Path_A", "Path_B", "Path_C"}
LoadableRoutes == {"Path_A", "Path_B"}
RoutePositions == {<<0, 0, 0>>, <<10, 0, 0>>, <<10, 5, 10>>}
FlockPositions == {<<5, 0, 0>>, <<8, 0, 6>>, <<20, 5, 10>>}
\* the route_points of a route
RoutePointLists == UNION {[1..n -> RoutePositions] : n \in 0..MaxRoutePoints}
\* what _load_all_routes can leave in self.flight_routes
RouteStores == UNION {[names -> RoutePointLists] : names \in SUBSET LoadableRoutes}

\* np.linalg.norm(a - b)
norm_of_difference(a, b) ==
    (a[1] - b[1]) * (a[1] - b[1]) + (a[2] - b[2]) * (a[2] - b[2])
       + (a[3] - b[3]) * (a[3] - b[3])

\* as route_loaded, but every route name passes
route_loaded_always(routes, route_name) == TRUE

\* route_name in self.flight_routes
route_loaded(routes, route_name) == route_name \in DOMAIN routes

\* self.flight_routes[route_name] raises KeyError for a name that is not a key
KeyError == [NoReturn EXCEPT !.raised = "KeyError"]

\* as closer, but the first point and then every farther one is taken
farther(distance, min_distance) == min_distance = inf \/ distance > min_distance

\* distance < min_distance
closer(distance, min_distance) == distance < min_distance

\* the loop of calculate_distance_to_route from the i-th route point on
RECURSIVE distance_loop(_, _, _, _)
distance_loop(route_points, flock_position, i, min_distance) ==
    IF i > Len(route_points) THEN min_distance
    ELSE LET distance == norm_of_difference(flock_position, route_points[i])
         IN  distance_loop(route_points, flock_position, i + 1,
                           IF closer(distance, min_distance) THEN distance ELSE min_distance)

calculate_distance_to_route(routes, route_name, flock_position) ==
    IF ~route_loaded(routes, route_name) THEN [NoReturn EXCEPT !.distance = inf]
    ELSE IF route_name \notin DOMAIN routes THEN KeyError
    ELSE [NoReturn EXCEPT !.distance = distance_loop(routes[route_name], flock_position, 1, inf)]

\* the loop of get_closest_point_on_route from the i-th route point on; the
\* index it keeps is the 0-based one of enumerate
RECURSIVE closest_loop(_, _, _, _)
closest_loop(route_points, flock_position, i, closest) ==
    IF i > Len(route_points) THEN closest
    ELSE LET distance == norm_of_difference(flock_position, route_points[i])
         IN  closest_loop(route_points, flock_position, i + 1,
                          IF closer(distance, closest.distance)
                          THEN [closest EXCEPT !.distance = distance,
                                               !.point = route_points[i],
                                               !.index = i - 1]
                          ELSE closest)

\* closest_point is None (<<>>) when no route point was taken
get_closest_point_on_route(routes, route_name, flock_position) ==
    IF ~route_loaded(routes, route_name)
    THEN [NoReturn EXCEPT !.distance = inf, !.point = <<0, 0, 0>>, !.index = 0 - 1]
    ELSE IF route_name \notin DOMAIN routes THEN KeyError
    ELSE closest_loop(routes[route_name], flock_position, 1,
                      [NoReturn EXCEPT !.distance = inf, !.index = 0 - 1])

\* np.array([0, 0, 0])
zero_vector == [NoReturn EXCEPT !.direction = <<0, 0, 0>>, !.norm = 1]

segment_length == 5

\* calculate_route_segment_direction: the difference of the two route points
\* around the one closest to closest_point, and the norm (squared) it is
\* divided by
calculate_route_segment_direction(routes, route_name, closest_point) ==
    IF ~route_loaded(routes, route_name) THEN zero_vector
    ELSE IF route_name \notin DOMAIN routes THEN KeyError
    ELSE LET route_points == routes[route_name]
             found == closest_loop(route_points, closest_point, 1,
                                   [NoReturn EXCEPT !.distance = inf])
             closest_idx == found.index
             start_idx == Max(0, closest_idx - segment_length \div 2)
             end_idx == Min(Len(route_points) - 1, closest_idx + segment_length \div 2)
         IN  IF start_idx = end_idx THEN zero_vector
             ELSE IF end_idx < 0 THEN [NoReturn EXCEPT !.raised = "IndexError"]
             ELSE LET from == route_points[start_idx + 1]
                      to == route_points[end_idx + 1]
                      direction == <<to[1] - from[1], to[2] - from[2], to[3] - from[3]>>
                      direction_norm == norm_of_difference(to, from)
                  IN  IF direction_norm > 0
                      THEN [NoReturn EXCEPT !.direction = direction, !.norm = direction_norm]
                      ELSE zero_vector

route_method(method, routes, route_name, position) ==
    CASE method = "calculate_distance_to_route" ->
            calculate_distance_to_route(routes, route_name, position)
      [] method = "get_closest_point_on_route" ->
            get_closest_point_on_route(routes, route_name, position)
      [] method = "calculate_route_segment_direction" ->
            calculate_route_segment_direction(routes, route_name, position)

\* a call of method on the calculator
call_route_method(method) ==
    \E route_name \in RouteNames, position \in FlockPositions :
       /\ route_call' = [method |-> method, route_name |-> route_name, position |-> position,
                         result |-> route_method(method, flight_routes, route_name, position)]
       /\ UNCHANGED <<detections, projection_matrices, matches, triangulated_points,
                      triangulations, flight_routes>>
       /\ UNCHANGED <<pipeVars, pc, msg, clientVars, envVars, accepted, sru_call, trackerVars,
                      riskVars, queueVars, heapVars>>

\* ------------------------------ the route part of calculate_risk (1-1 to 1-3)
MaxAssignedRoutePoints == 4
\* the (x, z) positions of a Flock track
FlockTrackPositions == {<<p[1], p[3]>> : p \in FlockPositions}
\* the route_points Path_A can have
AssignedRoutePointLists == UNION {[1..n -> RoutePositions] : n \in 0..MaxAssignedRoutePoints}
\* self.flight_routes with Path_A loaded or not
AssignedRouteStores ==
    {NoRoutes} \cup {[name \in {"Path_A"} |-> route_points] :
                        route_points \in AssignedRoutePointLists}

\* estimate_airplane_route: every airplane is assigned Path_A
estimate_airplane_route == "Path_A"

\* point - closest_point of numpy for a scalar closest_point: the scalar is
\* taken from every coordinate
broadcast(scalar) == <<scalar, scalar, scalar>>

\* steps 1-2 and 1-3 for a Flock track at flock_pos: the third value that
\* get_closest_point_on_route returns, the index, is bound to closest_point
\* and handed to calculate_route_segment_direction; an exception leaves
\* route_direction None
route_based_calculation(routes, flock_pos) ==
    LET assigned_route == estimate_airplane_route
        flock_3d_pos == <<flock_pos[1], 50, flock_pos[2]>>
        route_distance == calculate_distance_to_route(routes, assigned_route, flock_3d_pos)
        closest_point == get_closest_point_on_route(routes, assigned_route, flock_3d_pos).index
        route_direction ==
            calculate_route_segment_direction(routes, assigned_route, broadcast(closest_point))
    IN  [method |-> "calculate_risk", route_name |-> assigned_route, position |-> flock_3d_pos,
         result |-> IF route_direction.raised # ""
                    THEN [NoReturn EXCEPT !.distance = route_distance.distance]
                    ELSE [route_direction EXCEPT !.distance = route_distance.distance]]

\* calculate_risk for an Airplane track and a Flock track, up to step 2
calculate_risk_route ==
    \E flock_pos \in FlockTrackPositions :
       /\ route_call' = route_based_calculation(flight_routes, flock_pos)
       /\ UNCHANGED <<detections, projection_matrices, matches, triangulated_points,
                      triangulations, flight_routes>>
       /\ UNCHANGED <<pipeVars, pc, msg, clientVars, envVars, accepted, sru_call, trackerVars,
                      riskVars, queueVars, heapVars>>

\* ------------------------------------- _reconnect_worker, statement by statement
\* the head of a pass of the loop: `while self.running`, the clock, and the
\* test of self.connected; _connect is entered when it is not set
rw_pass ==
    /\ running
    /\ pc["reconn"] = "loop"
    /\ \E current_time \in Readings :
          /\ time_time(current_time, 0)
          /\ IF ~connected
             THEN /\ Events < MaxEvents
                  /\ rw_time' = current_time
                  /\ pc' = [pc EXCEPT !["reconn"] = "attempt"]
                  /\ UNCHANGED <<message_queue, last_heartbeat>>
             ELSE /\ current_time - last_heartbeat > heartbeat_interval
                  /\ message_queue' = Append(message_queue, Heartbeat(current_time))
                  /\ last_heartbeat' = current_time
                  /\ UNCHANGED <<rw_time, pc>>
    /\ UNCHANGED <<pipeVars, msg, running, connected, socket, last_sent_risk, last_send_time,
                   next_conn, link, wire, accepted, sru_call>>
    /\ UNCHANGED <<trackerVars, riskVars, queueVars, geoVars, heapVars>>

\* self.socket = socket.socket(...) of _connect
connect_create ==
    /\ pc["reconn"] = "attempt"
    /\ Events < MaxEvents
    /\ next_conn' = next_conn + 1
    /\ socket' = next_conn + 1
    /\ pc' = [pc EXCEPT !["reconn"] = "connect"]
    /\ UNCHANGED <<pipeVars, msg, running, connected, message_queue, last_sent_risk,
                   last_send_time, last_heartbeat, rw_time, now, ticks, link, wire,
                   accepted, sru_call>>
    /\ UNCHANGED <<trackerVars, riskVars, queueVars, geoVars, heapVars>>

\* self.socket.connect(...) returns, or it raises and _disconnect() runs; it
\* raises when stop() has closed the socket
connect_returns ==
    /\ pc["reconn"] = "connect"
    /\ \E ok \in BOOLEAN :
          /\ socket = 0 => ~ok
          /\ IF ok
             THEN /\ link' = link \cup {socket}
                  /\ pc' = [pc EXCEPT !["reconn"] = "established"]
                  /\ UNCHANGED <<connected, socket>>
             ELSE /\ connected' = FALSE
                  /\ socket' = 0
                  /\ link' = link \ {socket}
                  /\ pc' = [pc EXCEPT !["reconn"] = "loop"]
    /\ UNCHANGED <<pipeVars, msg, running, message_queue, last_sent_risk, last_send_time,
                   last_heartbeat, rw_time, now, ticks, next_conn, wire, accepted, sru_call>>
    /\ UNCHANGED <<trackerVars, riskVars, queueVars, geoVars, heapVars>>

\* self.connected = True, send_connection_status("connected"), return True,
\* and last_heartbeat = current_time of the worker
connect_set ==
    /\ pc["reconn"] = "established"
    /\ connected' = TRUE
    /\ \E t \in Readings :
          /\ time_time(t, 0)
          /\ message_queue' = Append(message_queue, ConnectionStatus("connected", t))
    /\ last_heartbeat' = rw_time
    /\ pc' = [pc EXCEPT !["reconn"] = "loop"]
    /\ UNCHANGED <<pipeVars, msg, running, socket, last_sent_risk, last_send_time, rw_time,
                   next_conn, link, wire, accepted, sru_call>>
    /\ UNCHANGED <<trackerVars, riskVars, queueVars, geoVars, heapVars>>

\* ---------------------------------------------------------- specifications
\* the pipeline: frames through calculate_risk, with the TCP client's
\* workers when enable_tcp is set
\* the processing worker hands the next frame's tracks to calculate_risk
ProcessFrame ==
    \E tracks \in {"none", "airplane", "both"}, raw \in Levels :
       /\ IF enable_tcp THEN Events < MaxEvents ELSE frame_id < MaxFrames
       /\ calculate_risk(tracks, raw)
       /\ UNCHANGED <<trackerVars, riskVars, queueVars, geoVars, heapVars>>

Next ==
    \/ PipelineStart
    \/ ProcessFrame
    \/ \E t \in {"proc", "sender"} : send_message(t)
    \/ sw_get
    \/ rw_loop
    \/ rw_connect

InitPipe == Init /\ enable_tcp

Spec == InitPipe /\ [][Next]_vars

\* the pipeline with enable_tcp off: calculate_risk stops after the hysteresis
NextRisk ==
    \/ PipelineStart
    \/ ProcessFrame

InitRisk == Init /\ ~enable_tcp

SpecRisk == InitRisk /\ [][NextRisk]_vars

\* a stand-alone client: its owner calls start() and send_risk_update
InitClient == Init /\ ~enable_tcp

NextClient ==
    \/ ClientStart
    \/ \E l \in Levels : send_risk_update(l)
    \/ send_message("sender")
    \/ sw_get
    \/ rw_loop
    \/ rw_connect

SpecClient == InitClient /\ [][NextClient]_vars

\* a stand-alone client whose owner only starts it, with the scheduling of
\* the reconnect worker and a server that accepts: the worker thread always
\* runs again (its loop only sleeps), a blocking connect returns or times
\* out, and of the attempts made while the server accepts one succeeds
NextReconn ==
    \/ ClientStart
    \/ send_message("sender")
    \/ sw_get
    \/ rw_loop
    \/ rw_connect

\* the connect of the reconnect worker returns
rw_connect_ok == rw_connect /\ connected'

FairReconn ==
    /\ WF_vars(rw_loop)
    /\ WF_vars(rw_connect)
    /\ SF_vars(rw_connect_ok)

SpecReconn == InitClient /\ [][NextReconn]_vars /\ FairReconn

\* a SessionTracker alone, driven by its caller
NextTracker ==
    \/ TrackerUpdate
    \/ finalize

SpecTracker == InitRisk /\ [][NextTracker]_vars

\* the pipeline with enable_tcp off, frames going through process_frame
\* the pipeline is handed the next frame by a direct call of process_frame
FrameCall == process_frame /\ UNCHANGED <<queueVars, geoVars, heapVars>>

NextFrames ==
    \/ PipelineStart
    \/ FrameCall

SpecFrames == InitRisk /\ [][NextFrames]_vars

\* as SpecFrames, for each frame_skip a configuration may set
FrameSkips == {1, 2, 3}

InitSkip ==
    /\ InitState
    /\ ~enable_tcp
    /\ self_frame_skip \in FrameSkips
    /\ camera_letters = default_camera_letters

SpecSkip == InitSkip /\ [][NextFrames]_vars

\* the frame watcher and the processing worker with TCP disabled, for a
\* configuration of one or of two cameras whose frame_skip is above the
\* number of frames of a run: every bundle stops at the skip test
CameraLetters == {{"A"}, {"A", "B"}}

InitWatch ==
    /\ InitState
    /\ ~enable_tcp
    /\ self_frame_skip = MaxFrames + 1
    /\ camera_letters \in CameraLetters

NextWatch ==
    \/ PipelineStart
    \/ watch_unity_frames
    \/ process_frames_worker

SpecWatch == InitWatch /\ [][NextWatch]_vars

\* the pipeline with its TCP client, started and stopped.  Every worker is a
\* thread the scheduler runs again, and each of its blocking calls returns:
\* the gets and the put after their timeout, sendall and connect after the
\* socket's 5 s timeout, the sleeps after their time
NextStop ==
    \/ PipelineStart
    \/ watch_unity_frames
    \/ process_frames_worker
    \/ \E t \in {"proc", "sender"} : send_message(t)
    \/ sw_get
    \/ rw_loop
    \/ rw_connect
    \/ stop
    \/ watch_exit
    \/ proc_exit
    \/ sender_exit
    \/ reconn_exit

FairStop ==
    /\ \A t \in {"proc", "sender"} : WF_vars(send_message(t))
    /\ WF_vars(rw_connect)
    /\ WF_vars(watch_exit)
    /\ WF_vars(proc_exit)
    /\ WF_vars(sender_exit)
    /\ WF_vars(reconn_exit)

InitStop ==
    /\ InitState
    /\ enable_tcp
    /\ self_frame_skip = frame_skip
    /\ camera_letters = default_camera_letters

SpecStop == InitStop /\ [][NextStop]_vars /\ FairStop

\* the risk engine's measurements alone
NextMeasure ==
    \/ measure_tracks
    \/ measure_values

SpecMeasure == InitRisk /\ [][NextMeasure]_vars

\* the triangulator alone
NextTriangulate == triangulate_frame

\* a frame's detections and the projection matrices of one or two cameras
InitTriangulate ==
    /\ InitPipeline
    /\ ~enable_tcp
    /\ self_frame_skip = frame_skip
    /\ camera_letters = default_camera_letters
    /\ detections \in DetectionLists
    /\ projection_matrices \in {1, 2}
    /\ flight_routes = NoRoutes
    /\ cleaning = NoCleaning

SpecTriangulate == InitTriangulate /\ [][NextTriangulate]_vars

\* the route calculator alone, with the routes it loaded
NextRoutes ==
    \/ call_route_method("calculate_distance_to_route")
    \/ call_route_method("get_closest_point_on_route")
    \/ call_route_method("calculate_route_segment_direction")

InitRoutes ==
    /\ InitPipeline
    /\ ~enable_tcp
    /\ self_frame_skip = frame_skip
    /\ camera_letters = default_camera_letters
    /\ detections = <<>>
    /\ projection_matrices = 0
    /\ flight_routes \in RouteStores
    /\ cleaning = NoCleaning

SpecRoutes == InitRoutes /\ [][NextRoutes]_vars

\* the tracker with its list objects, and the snapshot taken of it per frame
NextHeap == tracked_frame

SpecHeap == InitRisk /\ [][NextHeap]_vars

\* shutdown of a pipeline with a TCP client, the reconnect worker's connect
\* attempt taken statement by statement
NextShutdown ==
    \/ PipelineStart
    \/ rw_pass
    \/ connect_create
    \/ connect_returns
    \/ connect_set
    \/ send_message("sender")
    \/ sw_get
    \/ stop
    \/ sender_exit
    \/ reconn_exit

SpecShutdown == InitStop /\ [][NextShutdown]_vars

\* calculate_risk's use of the route calculator, Path_A loaded with up to
\* MaxAssignedRoutePoints points or not loaded
NextRiskRoute == calculate_risk_route

InitRiskRoute ==
    /\ InitPipeline
    /\ ~enable_tcp
    /\ self_frame_skip = frame_skip
    /\ camera_letters = default_camera_letters
    /\ detections = <<>>
    /\ projection_matrices = 0
    /\ flight_routes \in AssignedRouteStores
    /\ cleaning = NoCleaning

SpecRiskRoute == InitRiskRoute /\ [][NextRiskRoute]_vars

\* Session._remove_position_outliers alone, on a position list and a threshold
NextClean == clean_positions

InitClean ==
    /\ InitPipeline
    /\ ~enable_tcp
    /\ self_frame_skip = frame_skip
    /\ camera_letters = default_camera_letters
    /\ detections = <<>>
    /\ projection_matrices = 0
    /\ flight_routes = NoRoutes
    /\ \E positions \in PositionLists, threshold \in OutlierThresholds :
          cleaning = [NoCleaning EXCEPT
                         !.positions = [i \in 1..Len(positions) |-> entry_of(positions[i])],
                         !.threshold = threshold]

SpecClean == InitClean /\ [][NextClean]_vars

\* the frame watcher of the default two cameras, TCP disabled, over as many
\* passes as there are; its thread always runs again (the loop only sleeps)
NextWatching ==
    \/ PipelineStart
    \/ watch_pass

SpecWatching == InitRisk /\ [][NextWatching]_vars /\ WF_vars(watch_pass)

\* ================================================================ claims
Prio(l) == level_priority[l]
\* the level a value of current_risk_level stands for (RiskLevel.BR_LOW.value)
LevelName(v) == IF v = RiskLevel_BR_LOW THEN "BR_LOW" ELSE v
LastCall == calls[Len(calls)]
ProcReturns == pc["proc"] \in {"sm_check", "sm_len", "sm_body"} /\ pc'["proc"] = "idle"
\* the frame step of a frame that went through the hysteresis
StabilizedFrame == frame_id' # frame_id /\ risk_result'.stabilized

\* C1: the stabilized level returned by a call is lower than the one returned
\* by the previous call only if the raw level was strictly lower than the held
\* level on each of the last downgrade_threshold calls, the current included.
C1_DowngradeOnlyAfterThreshold ==
    LET n == Len(calls) IN
    (n >= 2 /\ Prio(calls[n].ret) < Prio(calls[n - 1].ret)) =>
        /\ n >= downgrade_threshold
        /\ \A i \in (n - downgrade_threshold + 1)..n : Prio(calls[i].raw) < Prio(calls[i].held)

C1_Witness ==
    /\ Len(calls) >= 2
    /\ Prio(LastCall.ret) < Prio(calls[Len(calls) - 1].ret)

\* C2: a raw level strictly higher than the held level is returned by that
\* same call, becomes the held level and resets the downgrade counter to 0.
C2_UpgradeImmediate ==
    (Len(calls) >= 1 /\ Prio(LastCall.raw) > Prio(LastCall.held)) =>
        /\ LastCall.ret = LastCall.raw
        /\ last_risk_level = LastCall.raw
        /\ risk_level_downgrade_counter = 0

C2_Witness ==
    /\ Len(calls) >= 1
    /\ Prio(LastCall.raw) > Prio(LastCall.held)
    /\ LastCall.counter > 0

\* the scenario of C3: held level HIGH with a counter of 0, then LOW on
\* downgrade_threshold - 1 frames and MEDIUM on the next
C3_Scenario ==
    /\ Len(calls) = downgrade_threshold
    /\ calls[1].held = "BR_HIGH"
    /\ calls[1].counter = 0
    /\ \A i \in 1..(downgrade_threshold - 1) : calls[i].raw = "BR_LOW"
    /\ calls[downgrade_threshold].raw = "BR_MEDIUM"

\* C3 (as claimed): from HIGH, LOW on 4 frames and MEDIUM on the 5th leave the
\* stabilized level HIGH on all five frames.
C3_HighOnAllFive ==
    C3_Scenario => \A i \in 1..downgrade_threshold : calls[i].ret = "BR_HIGH"

\* C3 (amended): from HIGH, LOW on 4 frames and MEDIUM on the 5th give HIGH
\* on the first four frames and MEDIUM on the 5th: the counter counts frames
\* below the held level, whatever their level, and the 5th completes it.
C3_MediumOnFifth ==
    C3_Scenario =>
        /\ \A i \in 1..(downgrade_threshold - 1) : calls[i].ret = "BR_HIGH"
        /\ calls[downgrade_threshold].ret = "BR_MEDIUM"
        /\ last_risk_level = "BR_MEDIUM"
        /\ risk_level_downgrade_counter = 0

C3_Witness == C3_Scenario /\ risk_result.frame > downgrade_threshold

\* C4: on a processed frame a BR_CHANGED message is sent exactly when the
\* stabilized level differs from the last reported level, which is LOW at
\* startup (so nothing is sent while the level has stayed LOW).
C4_SentIffChanged ==
    [][ (enable_tcp /\ StabilizedFrame) =>
          ((pc'["proc"] = "sm_check") <=>
           (risk_result'.risk_level # LevelName(current_risk_level))) ]_vars

\* a sendall of this step put the body of the processing worker's message on
\* the wire
ProcBodyWritten == \E c \in DOMAIN wire : wire'[c] = Append(wire[c], BodyChunk(msg["proc"]))

RECURSIVE Bodies(_)
Bodies(c) == IF c = 0 THEN <<>> ELSE Bodies(c - 1) \o SelectSeq(wire[c], LAMBDA x : x.k = "json")
WireEvents == SelectSeq(Bodies(MaxEvents), LAMBDA x : x.m.type = "event")
\* the level the server was told last; LOW before it is told any
LastDelivered == IF WireEvents = <<>> THEN "BR_LOW" ELSE WireEvents[Len(WireEvents)].m.result

\* C6: once the client is connected again, a processed frame leaves the server
\* with the current stabilized level: it is sent whenever it differs from the
\* last level delivered.
C6_CurrentLevelDelivered ==
    [][ ( /\ enable_tcp
          /\ connected /\ sendall_ok /\ connected'
          /\ pc'["proc"] = "idle"
          /\ (StabilizedFrame \/ ProcReturns) )
        => LastDelivered' = risk_result'.risk_level ]_vars

\* the server's read loop: 4 bytes of length L, then L bytes that are one
\* JSON message; a frame whose body has not arrived yet may end the stream
RECURSIVE WholeFrames(_)
WholeFrames(w) ==
    IF w = <<>> THEN TRUE
    ELSE IF w[1].k # "len" THEN FALSE
    ELSE IF Len(w) = 1 THEN TRUE
    ELSE /\ w[2].k = "json"
         /\ w[2].n = from_bytes4(w[1].b)
         /\ WholeFrames(SubSeq(w, 3, Len(w)))

\* C7: the byte stream of every connection is a sequence of whole frames,
\* under every interleaving of the two threads that call send_message.
C7_WholeFrames == \A c \in DOMAIN wire : WholeFrames(wire[c])

RECURSIVE IsSubseq(_, _)
IsSubseq(a, b) ==
    IF a = <<>> THEN TRUE
    ELSE IF b = <<>> THEN FALSE
    ELSE IF Head(a) = Head(b) THEN IsSubseq(Tail(a), Tail(b))
    ELSE IsSubseq(a, Tail(b))

WireMessages == [i \in 1..Len(WireEvents) |-> WireEvents[i].m]

\* C8: the events accepted by send_risk_update are written to the socket in
\* the order in which they were accepted.
C8_AcceptOrder == IsSubseq(WireMessages, accepted)

Count(q, e) == Cardinality({i \in 1..Len(q) : q[i] = e})

\* C9: every accepted event is in the queue, in the sender worker's hands or
\* written in full to the socket; the sender worker discards none.
C9_NoEventDiscarded ==
    \A i \in 1..Len(accepted) :
        LET e == accepted[i] IN
        Count(accepted, e) <= Count(message_queue, e) + Count(WireMessages, e)
                              + (IF msg["sender"] = e THEN 1 ELSE 0)

\* C10: send_risk_update(level) enqueues nothing and leaves last_sent_risk and
\* last_send_time alone exactly when level is the last accepted level and
\* less than min_send_interval has passed since; otherwise it enqueues one
\* BR_CHANGED event and records the level and the time.
C10_SuppressExactly ==
    [][ sru_call' # sru_call =>
          IF last_sent_risk = sru_call'.level /\ now' - last_send_time < min_send_interval
          THEN /\ message_queue' = message_queue
               /\ last_sent_risk' = last_sent_risk
               /\ last_send_time' = last_send_time
          ELSE /\ message_queue' = Append(message_queue, ClientEvent(sru_call'.level, now'))
               /\ last_sent_risk' = sru_call'.level
               /\ last_send_time' = now' ]_vars

\* a second call with the accepted level one interval later, accepted again
C10_Witness ==
    /\ sru_call.n = 2
    /\ Len(accepted) = 2
    /\ accepted[1].result = accepted[2].result
    /\ accepted[2].ts - accepted[1].ts = min_send_interval

\* the run has used up MaxEvents and no connect is pending: the model can
\* create no further socket
Exhausted == Events >= MaxEvents /\ pc["reconn"] = "loop"

\* C11: a running, disconnected client whose server accepts connections
\* becomes connected: the reconnect worker retries for as long as running is
\* true and connected is false (up to the sockets the model can create).
C11_ReconnectsEventually ==
    (running /\ ~connected) ~> (connected \/ Exhausted)

\* the reconnect worker has connected a client whose first connect failed
C11_Witness ==
    /\ running /\ connected
    /\ rw_time # 0
    /\ socket \in link
    /\ ~Exhausted

\* C12: the length of the outbound queue never exceeds a fixed capacity,
\* further messages being dropped: here, any capacity below the number of
\* messages a run can offer.
C12_QueueBounded == Len(message_queue) < MaxEvents

\* a call of update has returned
Updated == frame_number' # frame_number

\* C13: after every update the tracker is in a session exactly when the
\* frame's detections hold an Airplane; the session is opened on the first
\* frame with an Airplane and closed on the first frame without.
C13_InSessionIffAirplane ==
    [][ Updated =>
          /\ in_session' <=> (points'.airplane # NoPosition)
          /\ (~in_session /\ in_session') =>
                /\ current_session_id' = current_session_id + 1
                /\ current_session_data'.start_frame = frame_number' ]_vars

\* a session was opened, closed on a frame without an Airplane, and the
\* next one opened
C13_Witness ==
    /\ in_session
    /\ current_session_id = 2
    /\ jump_frames_count = 0
    /\ updates = 3

\* C14: every session in sessions has end_frame - start_frame + 1 >=
\* min_session_length; a shorter one is dropped when it is closed.
C14_SessionsLongEnough ==
    \A i \in 1..Len(sessions) :
        sessions[i].end_frame - sessions[i].start_frame + 1 >= min_session_length

\* a session was kept and a later, shorter one was dropped
C14_Witness ==
    /\ Len(sessions) = 1
    /\ ~in_session
    /\ current_session_id = 2

\* C15: once the Airplane has jumped by more than position_jump_threshold in
\* one frame and been at the position it jumped to for J frames, the session
\* of the jump is closed and a new one is open, its positions starting at
\* that position.
C15_JumpSplitsSession ==
    (in_session /\ jump.stayed >= jump_duration_threshold) =>
        /\ current_session_id # jump.id
        /\ current_session_data.airplane_positions.first = jump.to

\* the pipeline has processed a frame that was not skipped
Processed == frame_id' # frame_id /\ skip_counter' % self_frame_skip = 0

\* C16: after a non-skipped frame in which no Airplane was triangulated the
\* tracker is not in a session, frames with no detections or no
\* triangulated points included.
C16_NoAirplaneNoSession ==
    [][ (Processed /\ points'.airplane = NoPosition) => ~in_session' ]_vars

\* C17: a processed frame with an Airplane and no Flock triangulated gives
\* the result of the branch without a Flock: BR_LOW, all distances infinite.
C17_NoFlockLow ==
    [][ (Processed /\ points'.airplane # NoPosition /\ ~points'.flock) =>
          risk_result' = [frame |-> frame_id', raw_risk_level |-> None,
                          risk_level |-> "BR_LOW", stabilized |-> FALSE] ]_vars

Measured == raw_risk_level # None

\* C18: the raw level is at least the floor of each rule: HIGH below 50 m,
\* at least MEDIUM below 100 m, HIGH for a TTC below 5 s and at least MEDIUM
\* for a TTC below 12 s, the TTC floors at every distance.
C18_Floors ==
    Measured =>
        /\ hybrid_distance < 5000 => raw_risk_level = "BR_HIGH"
        /\ hybrid_distance < 10000 => raw_risk_level \in {"BR_MEDIUM", "BR_HIGH"}
        /\ ttc < 500 => raw_risk_level = "BR_HIGH"
        /\ ttc < 1200 => raw_risk_level \in {"BR_MEDIUM", "BR_HIGH"}

\* C19: a hybrid distance of exactly 50 m gives HIGH, as for a flock
\* directly below the airplane with no route assigned.
C19_FiftyIsHigh ==
    (Measured /\ hybrid_distance = 5000) => raw_risk_level = "BR_HIGH"

\* C20: for a pair of tracks the TTC is infinite whenever the relative speed
\* of calculate_relative_speed is <= 0 or the XZ distance is below epsilon,
\* and finite only when that relative speed is positive.
C20_TtcFiniteOnlyApproaching ==
    (Measured /\ airplane_track # NoTrack) =>
        /\ (relative_speed <= 0 \/ xz_distance(airplane_track.position, flock_track.position) = 0)
              => ttc = inf
        /\ ttc # inf => relative_speed > 0

\* update appended a velocity entry for the frame of this call
VelocityAppended ==
    /\ Updated
    /\ current_session_data'.airplane_velocities.last # <<>>
    /\ current_session_data'.airplane_velocities.last[1] = frame_number'
    /\ current_session_data'.airplane_velocities # current_session_data.airplane_velocities

\* C21: a velocity entry update appends is the position difference over the
\* frame difference scaled to per-second at 30 fps: the entry
\* Session._recalculate_velocities gives for the same two positions.
C21_VelocityPerSecond ==
    [][VelocityAppended =>
         LET v == current_session_data'.airplane_velocities.last
             r == recalculate_velocity(last_frame_number, last_airplane_position,
                                       frame_number', last_airplane_position')
         IN  SameNumber(v[2], r[2]) /\ SameNumber(v[3], r[3])]_vars

\* process_frame was called on a dequeued bundle
Dequeued == skip_counter' # skip_counter

\* C22: with frame_skip = N exactly the k*N-th bundles given to process_frame
\* reach the detection, and any other bundle leaves the tracker, the
\* hysteresis and the TCP client as they were.
C22_EveryNthProcessed ==
    [][Dequeued =>
         /\ skip_counter' = skip_counter + 1
         /\ detect_calls' = skip_counter' \div self_frame_skip
         /\ (detect_calls' # detect_calls) <=> (skip_counter' % self_frame_skip = 0)
         /\ skip_counter' % self_frame_skip # 0 =>
               UNCHANGED <<sessions, current_session_id, in_session, current_session_data,
                           last_airplane_position, last_frame_number, jump_start_frame,
                           jump_frames_count, last_risk_level, risk_level_downgrade_counter,
                           current_risk_level, clientVars, riskVars>>]_vars

C22_Witness == self_frame_skip = 3 /\ skip_counter = 6 /\ detect_calls = 2 /\ in_session

\* the watcher put a bundle on the queue
Put == emitted' # emitted

\* the processing worker took a bundle from the queue
Got == frame_data' # frame_data

\* the last pass of the watcher built a bundle that the full queue refused
Dropped ==
    /\ Len(frame_queue) = frame_queue_maxsize
    /\ Cardinality(camera_letters) >= 2
    /\ DOMAIN new_frames = camera_letters
    /\ emitted.images # new_frames

\* C23: the bundles put on the queue carry strictly increasing frame_id
\* values, the queue holds them in that order, and the processing worker
\* takes them in increasing frame_id order, also after a bundle was dropped
\* at a full queue.
C23_FrameIdOrder ==
    [][/\ Put => emitted'.frame_id > emitted.frame_id
       /\ Got => frame_data'.frame_id > frame_data.frame_id
       /\ \A i \in 1..(Len(frame_queue') - 1) :
             frame_queue'[i].frame_id < frame_queue'[i + 1].frame_id]_vars

C23_Witness == Dropped /\ frame_data.frame_id >= 0

\* C25: a bundle put on the queue has an image of every monitored camera,
\* of two cameras at least, and none of its images is the file the camera
\* gave to the bundle put before it.
C25_BundleComplete ==
    [][Put =>
         /\ DOMAIN emitted'.images = camera_letters
         /\ Cardinality(DOMAIN emitted'.images) >= 2
         /\ \A letter \in DOMAIN emitted'.images :
               letter \in DOMAIN emitted.images =>
                  emitted'.images[letter] # emitted.images[letter]]_vars

C25_Witness ==
    /\ emitted.frame_id = 1
    /\ emitted.images = [letter \in {"A", "B"} |-> IF letter = "A" THEN <<1, 3>> ELSE <<1, 2>>]

\* stop() has cleared the shutdown flag of a started pipeline
Stopping == ~is_running /\ pc["watch"] # "off"

\* every worker has left its loop
AllLeft == \A t \in Threads : pc[t] = "done"

\* C24: once stop() has cleared the shutdown flag, the frame watcher, the
\* processing worker, the TCP sender and the TCP reconnect worker each leave
\* their loop eventually, whatever wait they were in.
C24_WorkersLeave == Stopping ~> AllLeft

C24_Witness ==
    /\ Stopping
    /\ pc["watch"] = "loop"
    /\ pc["proc"] = "idle" /\ frame_queue = <<>>
    /\ pc["sender"] = "get" /\ message_queue = <<>>
    /\ pc["reconn"] = "connect"

Abs(n) == IF n < 0 THEN 0 - n ELSE n
PointIndexes == 1..Len(triangulated_points)
FlockPoints == {i \in PointIndexes : triangulated_points[i].class = "Flock"}

\* C26: every point triangulate_objects_realtime returns has |x|, |y| and
\* |z| at most 10000; a candidate with w = 0 or with a larger coordinate is
\* dropped.
C26_CoordinatesBounded ==
    \A i \in PointIndexes :
       /\ Abs(triangulated_points[i].x) <= max_coord
       /\ Abs(triangulated_points[i].y) <= max_coord
       /\ Abs(triangulated_points[i].z) <= max_coord

\* the points of the matches that make up the merged flock p
MergedFrom(p, group) ==
    /\ Cardinality(group) = p.cameras.merged
    /\ \A k \in group :
          /\ point_of(matches[k], frame_id) # <<>>
          /\ matches[k].match.det1.class = "Flock"
          /\ matches[k].match.det2.class = "Flock"
    /\ p.x = mean([k \in group |-> point_of(matches[k], frame_id)[1].x], group)
    /\ p.y = mean([k \in group |-> point_of(matches[k], frame_id)[1].y], group)
    /\ p.z = mean([k \in group |-> point_of(matches[k], frame_id)[1].z], group)

\* C27: the two detections of a match have the same class; a returned point
\* that is not a merged flock is the point of a match whose two detections
\* have its class, and a merged flock has class Flock and is the mean of the
\* points of matches of two Flock detections.
C27_ClassesAgree ==
    /\ \A k \in 1..Len(matches) : matches[k].match.det1.class = matches[k].match.det2.class
    /\ \A i \in PointIndexes :
          LET p == triangulated_points[i]
          IN  IF p.cameras.merged = 0
              THEN \E k \in 1..Len(matches) :
                      /\ point_of(matches[k], frame_id) = <<p>>
                      /\ matches[k].match.det1.class = p.class
                      /\ matches[k].match.det2.class = p.class
              ELSE /\ p.class = "Flock"
                   /\ p.cameras.merged >= 2
                   /\ \E group \in SUBSET (1..Len(matches)) : MergedFrom(p, group)

\* each camera names an Airplane and a Flock, in opposite orders, and a
\* point of each class is returned
C27_Witness ==
    /\ Len(detections) = 4
    /\ Len(camera_detections(detections, "A")) = 2
    /\ camera_detections(detections, "A")[1].class = "Airplane"
    /\ camera_detections(detections, "B")[1].class = "Flock"
    /\ Len(triangulated_points) = 2
    /\ Cardinality(FlockPoints) = 1

\* the distance_threshold of merge_nearby_flocks_2d, in px
flock_threshold_2d == 100

\* np.linalg.norm(centers[i] - centers[j]) < distance_threshold
centers_nearby(det1, det2) ==
    (det1.center[1] - det2.center[1]) * (det1.center[1] - det2.center[1])
       + (det1.center[2] - det2.center[2]) * (det1.center[2] - det2.center[2])
    < flock_threshold_2d * flock_threshold_2d

\* camera reports several Flock detections, all within the 2D threshold of
\* each other
CompositeFlock(camera) ==
    LET flocks == SelectSeq(camera_detections(detections, camera),
                            LAMBDA det : det.class = "Flock")
    IN  /\ Len(flocks) >= 2
        /\ \A i, j \in 1..Len(flocks) : centers_nearby(flocks[i], flocks[j])

\* C28: when a camera reports several Flock detections whose centers all lie
\* within the 2D merge threshold of each other, at most one Flock point is
\* returned for the frame and the camera pair.
C28_CompositeFlockOnePoint ==
    (triangulations > 0 /\ projection_matrices = 2
        /\ \E camera \in Cameras : CompositeFlock(camera)) =>
        Cardinality(FlockPoints) <= 1

\* the step is a call for a route name that is not loaded
UnknownRouteCall ==
    /\ route_call' # route_call
    /\ route_call'.route_name \notin DOMAIN flight_routes

\* C29: for a route name that is not loaded, calculate_distance_to_route and
\* get_closest_point_on_route return the distance +infinity, the latter
\* with index -1, and calculate_route_segment_direction returns the zero
\* vector; none of them raises and flight_routes is left as it was.
C29_UnknownRoute ==
    [][UnknownRouteCall =>
         LET returned == route_call'.result
         IN  /\ returned.raised = ""
             /\ route_call'.method = "calculate_distance_to_route" => returned.distance = inf
             /\ route_call'.method = "get_closest_point_on_route" =>
                   returned.distance = inf /\ returned.index = 0 - 1
             /\ route_call'.method = "calculate_route_segment_direction" =>
                   returned.direction = <<0, 0, 0>>
             /\ flight_routes' = flight_routes]_vars

C29_Witness ==
    /\ DOMAIN flight_routes = LoadableRoutes
    /\ \A name \in LoadableRoutes : flight_routes[name] # <<>>
    /\ route_call.method = "get_closest_point_on_route"
    /\ route_call.route_name = "Path_C"
    /\ route_call.result.index = 0 - 1

\* the last call was get_closest_point_on_route for a loaded route with at
\* least one point
ClosestOnLoadedRoute ==
    /\ route_call.method = "get_closest_point_on_route"
    /\ route_call.route_name \in DOMAIN flight_routes
    /\ Len(flight_routes[route_call.route_name]) >= 1

\* C30: for a loaded route with at least one point and a position p,
\* get_closest_point_on_route applied to the point it returned for p returns
\* that point again, and the distance it returned for p is the one
\* calculate_distance_to_route returns for p.
C30_ClosestIdempotent ==
    ClosestOnLoadedRoute =>
        LET returned == route_call.result
        IN  /\ returned.raised = ""
            /\ returned.point # <<>>
            /\ get_closest_point_on_route(flight_routes, route_call.route_name,
                                          returned.point).point = returned.point
            /\ returned.distance
                  = calculate_distance_to_route(flight_routes, route_call.route_name,
                                                route_call.position).distance

C30_Witness ==
    /\ ClosestOnLoadedRoute
    /\ flight_routes[route_call.route_name] = <<<<0, 0, 0>>, <<10, 0, 0>>>>
    /\ route_call.position = <<8, 0, 6>>
    /\ route_call.result.index = 1
    /\ route_call.result.distance = 40

\* the lists object o refers to hold after the step what they held before
ListsKept(o) ==
    /\ lists'[o.positions] = lists[o.positions]
    /\ lists'[o.velocities] = lists[o.velocities]

\* C31: no update changes the position list or the velocity list of the
\* active-tracks snapshot taken before it, or of a session that is already
\* in the history.
C31_SnapshotsAndSessionsKept ==
    [][/\ \A i \in 1..Len(session_lists) : ListsKept(session_lists[i])
       /\ snapshot # NoLists => ListsKept(snapshot)]_vars

\* a session is in the history with its positions, then a later session
\* was opened, extended and its snapshot taken
C31_Witness ==
    /\ Len(session_lists) = 1
    /\ Len(lists[session_lists[1].positions]) = 2
    /\ in_session
    /\ current_lists # session_lists[1]
    /\ Len(lists[current_lists.positions]) = 2
    /\ snapshot # NoLists
    /\ Len(lists[snapshot.positions]) = 2

\* the Airplane moved more than position_jump_threshold between two entries
\* of a position list
Moved(a, b) ==
    (a[2] - b[2]) * (a[2] - b[2]) + (a[3] - b[3]) * (a[3] - b[3])
       > position_jump_threshold * position_jump_threshold

\* how many of the last entries of a position list each moved from the
\* entry before it
RECURSIVE TrailingJumps(_)
TrailingJumps(entries) ==
    IF Len(entries) < 2 \/ ~Moved(entries[Len(entries)], entries[Len(entries) - 1]) THEN 0
    ELSE 1 + TrailingJumps(SubSeq(entries, 1, Len(entries) - 1))

\* the step is an update with an Airplane while a session is open
AirplaneInSession == in_session /\ updates' # updates /\ points'.airplane # NoPosition

\* C32: an open session is split on a frame exactly when the count of
\* consecutive frames on which the Airplane moved more than
\* position_jump_threshold from the previous frame's position has reached
\* jump_duration_threshold; below it the session is extended.  On the split
\* the closed session ends at the previous frame, the new session starts at
\* the split frame and the jump counter is 0.
C32_SplitOnSustainedJump ==
    [][AirplaneInSession =>
         LET entry == <<frame_number', points'.airplane[1], points'.airplane[2]>>
             count == TrailingJumps(Append(lists[current_lists.positions], entry))
         IN  IF count >= jump_duration_threshold
             THEN /\ Len(sessions') = Len(sessions) + 1
                  /\ sessions'[Len(sessions')].end_frame = frame_number
                  /\ current_session_id' = current_session_id + 1
                  /\ current_session_data'.start_frame = frame_number'
                  /\ jump_frames_count' = 0
             ELSE /\ sessions' = sessions
                  /\ current_session_id' = current_session_id
                  /\ current_session_data'.start_frame = current_session_data.start_frame
                  /\ current_session_data'.last_frame = frame_number'
                  /\ jump_frames_count' = count]_vars

\* a session was split on the third jump in a row, and the new session
\* extended by the next frame
C32_Witness ==
    /\ Len(sessions) = 1
    /\ in_session
    /\ sessions[1].end_frame = 3 * min_session_length
    /\ current_session_data.start_frame = 4 * min_session_length
    /\ current_session_data.last_frame = 5 * min_session_length
    /\ Len(lists[session_lists[1].positions]) = 3

\* C33: once stop() has returned, the TCP client is disconnected and holds
\* no socket, whatever the reconnect worker was doing when stop() ran.
C33_StoppedClientDisconnected == Stopping => ~connected /\ socket = 0

\* C34: the route direction of the risk result is the segment direction of
\* the assigned route at the route point closest to the flock position, the
\* point that get_closest_point_on_route returns for it.
C34_DirectionAtClosestPoint ==
    (route_call.method = "calculate_risk" /\ route_call.route_name \in DOMAIN flight_routes) =>
        LET closest == get_closest_point_on_route(flight_routes, route_call.route_name,
                                                  route_call.position)
            at_point == calculate_route_segment_direction(flight_routes, route_call.route_name,
                                                          closest.point)
        IN  closest.point # <<>> =>
               /\ route_call.result.direction = at_point.direction
               /\ route_call.result.norm = at_point.norm

\* the entries of a list strictly between its first and its last
Interior(positions) == 2..(Len(positions) - 1)

\* the speed per frame between the entries p and q, p the earlier one, is at
\* most threshold
PerFrameSpeedAtMost(p, q, threshold) ==
    Dist2(<<p[2], p[3]>>, <<q[2], q[3]>>)
       <= threshold * threshold * (q[1] - p[1]) * (q[1] - p[1])

\* C35: for a position list of one entry or more, _remove_position_outliers
\* returns a subsequence of it that holds its first and its last entry, and
\* an interior entry is kept exactly when its speed per frame to both of its
\* neighbours is at most the threshold.
C35_OutliersRemoved ==
    (cleaning.calls > 0 /\ Len(cleaning.positions) >= 1) =>
        LET positions == cleaning.positions
            cleaned == cleaning.cleaned
        IN  /\ IsSubseq(cleaned, positions)
            /\ cleaned # <<>>
            /\ cleaned[1] = positions[1]
            /\ cleaned[Len(cleaned)] = positions[Len(positions)]
            /\ \A i \in Interior(positions) :
                  (\E k \in 1..Len(cleaned) : cleaned[k] = positions[i])
                     <=> /\ PerFrameSpeedAtMost(positions[i - 1], positions[i],
                                                cleaning.threshold)
                         /\ PerFrameSpeedAtMost(positions[i], positions[i + 1],
                                                cleaning.threshold)

\* a list of four entries was cleaned: of its two interior entries one, at
\* exactly the threshold from both neighbours, was kept and one was removed
C35_Witness ==
    /\ cleaning.calls > 0
    /\ Len(cleaning.positions) = 4
    /\ Len(cleaning.cleaned) = 3
    /\ \E i \in Interior(cleaning.positions) :
          /\ cleaning.cleaned[2] = cleaning.positions[i]
          /\ Dist2(<<cleaning.positions[i][2], cleaning.positions[i][3]>>,
                   <<cleaning.positions[i - 1][2], cleaning.positions[i - 1][3]>>)
                = cleaning.threshold * cleaning.threshold
          /\ cleaning.positions[i][1] = cleaning.positions[i - 1][1] + 1

\* the step is a call of calculate_risk that returns before the hysteresis
EarlyReturn == frame_id' # frame_id /\ ~risk_result'.stabilized

\* C36: a call of calculate_risk that returns early, without an Airplane
\* track or with an Airplane track and no Flock track, leaves the held level,
\* the downgrade counter and the last reported level as they were and hands
\* nothing to the TCP client.
C36_EarlyReturnNoEffect ==
    [][EarlyReturn =>
          /\ UNCHANGED <<last_risk_level, risk_level_downgrade_counter, current_risk_level>>
          /\ UNCHANGED <<calls, pc, msg, message_queue, wire, accepted>>]_vars

\* a frame with an Airplane track and no Flock track was returned as BR_LOW
\* while HIGH was held and had been reported over a live connection
C36_Witness ==
    /\ risk_result.frame = frame_id
    /\ ~risk_result.stabilized
    /\ risk_result.risk_level = "BR_LOW"
    /\ last_risk_level = "BR_HIGH"
    /\ current_risk_level = "BR_HIGH"
    /\ connected

\* a frame without an Airplane track was returned as None while MEDIUM was held
C36_WitnessNone ==
    /\ risk_result.frame = frame_id
    /\ ~risk_result.stabilized
    /\ risk_result.risk_level = None
    /\ last_risk_level = "BR_MEDIUM"

\* the velocity entry v of a session is the one of the k-th position of its
\* position list, taken over the position before it in the same list
FromPrecedingPosition(v, positions, k) ==
    /\ positions[k][1] = v[1]
    /\ LET expected == update_velocity(positions[k - 1][1],
                                       <<positions[k - 1][2], positions[k - 1][3]>>,
                                       positions[k][1], <<positions[k][2], positions[k][3]>>)
       IN  SameNumber(v[2], expected[2]) /\ SameNumber(v[3], expected[3])

\* every velocity entry of the lists of o comes from two consecutive
\* positions of o
VelocitiesWithinSession(o) ==
    LET positions == lists[o.positions]
        velocities == lists[o.velocities]
    IN  \A j \in 1..Len(velocities) :
           \E k \in 2..Len(positions) : FromPrecedingPosition(velocities[j], positions, k)

\* C37: every airplane velocity entry of a session, open or in the history,
\* is computed from that session's position of the same frame and the
\* position before it in the same session; the first frame of a session has
\* no velocity entry.
C37_VelocityWithinSession ==
    /\ in_session => VelocitiesWithinSession(current_lists)
    /\ \A i \in 1..Len(session_lists) : VelocitiesWithinSession(session_lists[i])

\* C38: for the same relative speed and the same TTC, the raw level of a
\* measurement at a larger distance is not above the raw level of the
\* measurement before it.
C38_LevelFallsWithDistance ==
    [][(/\ Measured
        /\ relative_speed' = relative_speed
        /\ ttc' = ttc
        /\ hybrid_distance' > hybrid_distance) =>
           Prio(raw_risk_level') <= Prio(raw_risk_level)]_vars

\* the watcher's last pass found a new file of camera letter
NewFile(letter) == letter \in DOMAIN new_frames

\* C39: when the watcher again and again finds a new file of every camera it
\* monitors, in the same pass or in different passes, it puts a bundle on
\* the queue.
C39_BundlesKeepComing ==
    (\A letter \in default_camera_letters : []<>NewFile(letter)) => <>(frame_count > 0)

====
